---- MODULE Spec2Model ----
(***************************************************************************)
(* Import-job pipeline of the importal backend: one import job, the RQ     *)
(* worker pass (app/workers/api_worker.py), the promotion task and the     *)
(* edit endpoints (app/api/v1/imports.py), and the two field validators    *)
(* (app/services/validation_service.py, app/utils/validator.py).           *)
(*                                                                         *)
(* Granularity.  A request handler that runs on the event loop without an  *)
(* await between its query and its commit is one step.  The worker (own    *)
(* process) and the promotion task (executor thread) hold an ORM session   *)
(* across file I/O: they are split at their commits, carry the attribute   *)
(* values they loaded (snap) and write back at commit only the attributes  *)
(* whose assigned value differs from the loaded one (SQLAlchemy unit of    *)
(* work), processed_data being forced by flag_modified.  Request handlers  *)
(* share one event loop (one process), as the endpoints are written.       *)
(***************************************************************************)
EXTENDS Integers, Sequences, FiniteSets, TLC

(* ------------------------------ bounds --------------------------------- *)
\* rows in an uploaded file and in a table sent by the grid
MaxRows == 1
\* iterations of update_cell's poll loop (range(30) in the code, scaled)
MaxPolls == 2
\* deliveries of process_api_import for the job (at-least-once queue)
MaxDeliveries == 1
\* update_cell requests that may be inside the promotion wait at once
MaxRequests == 2
\* requests (update_cell, save_data, validate_conflicts) issued while the
\* worker and the promotions run concurrently
MaxEdits == 2

ReqIds == 1..MaxRequests

(* --------------------------- small helpers ----------------------------- *)
Range(s) == {s[i] : i \in DOMAIN s}

IndexOf(s, x) == IF x \in Range(s) THEN CHOOSE i \in DOMAIN s : s[i] = x /\ \A j \in 1..(i-1) : s[j] # x ELSE 0

SelectSeqIdx(s, Keep(_)) ==
    LET F[i \in 0..Len(s)] == IF i = 0 THEN << >>
                              ELSE IF Keep(i) THEN Append(F[i-1], s[i]) ELSE F[i-1]
    IN F[Len(s)]

\* concatenation of a sequence of sequences
Flatten(ss) ==
    LET F[i \in 0..Len(ss)] == IF i = 0 THEN << >> ELSE F[i-1] \o ss[i]
    IN F[Len(ss)]

\* Python's None for an optional error message
NoError == << >>

(* ----------------------------- the schema ------------------------------ *)
\* importer.fields of the job's importer: a required positive number, an
\* optional boolean with no template and an optional string with no rules
Fields ==
    << [name |-> "age", type |-> "number", required |-> TRUE,
        extra_rules |-> [sign |-> "positive"]],
       [name |-> "active", type |-> "boolean", required |-> FALSE,
        extra_rules |-> << >>],
       [name |-> "city", type |-> "string", required |-> FALSE,
        extra_rules |-> << >>] >>

FieldNames == {Fields[i].name : i \in DOMAIN Fields}
RequiredFields == {Fields[i].name : i \in {j \in DOMAIN Fields : Fields[j].required}}
HasField(name) == name \in FieldNames
FieldByName(name) == Fields[CHOOSE i \in DOMAIN Fields : Fields[i].name = name]

\* cell values that occur in files and edits
Values == {"1", "x"}

(* ------------------------- string primitives --------------------------- *)
\* str.strip() on the strings of the model
Strip(v) == IF v \in {" ", "  "} THEN "" ELSE IF v = " 1" THEN "1" ELSE v
\* str.lower()
Lower(v) == CASE v = "X" -> "x" [] v = "TRUE" -> "true" [] v = "Yes" -> "yes"
              [] v = "T" -> "t" [] v = "Actives" -> "actives" [] v = "Age" -> "age"
              [] OTHER -> v
\* float(s): the parsed number, or ValueError
ParseFloat(v) == CASE v = "1"  -> [ok |-> TRUE, num |-> 1]
                   [] v = "0"  -> [ok |-> TRUE, num |-> 0]
                   [] v = "-1" -> [ok |-> TRUE, num |-> -1]
                   [] OTHER    -> [ok |-> FALSE, num |-> 0]
ContainsAt(v) == v \in {"a@b.c", "a@b"}
StartsWithHttp(v) == v \in {"http://a.b", "https://a.b"}

GetRule(rules, key) == IF key \in DOMAIN rules THEN rules[key] ELSE ""

(* ------------- app/services/validation_service.py (edits) -------------- *)
BooleanAny == {"true", "false", "yes", "no", "1", "0", "on", "off", "t", "f", "y", "n"}

BooleanAllowed(template) ==
    CASE template = "any" -> BooleanAny
      [] template = "true/false" -> {"true", "false", "t", "f"}
      [] template = "yes/no" -> {"yes", "no", "y", "n"}
      [] template = "1/0" -> {"1", "0"}
      [] template = "on/off" -> {"on", "off"}
      [] OTHER -> BooleanAny

NormalizeTemplate(t) ==
    LET tl == Lower(t) IN
    CASE tl \in {"true/false", "true_false"} -> "true/false"
      [] tl \in {"yes/no", "yes_no"} -> "yes/no"
      [] tl \in {"1/0", "1_0"} -> "1/0"
      [] tl \in {"on/off", "on_off"} -> "on/off"
      [] OTHER -> "any"

SvcValidateRequired(value, name) ==
    IF Strip(value) = "" THEN <<name, "is required">> ELSE NoError

SvcValidateNumber(value, name, type, rules) ==
    IF value = "" THEN NoError
    ELSE LET s == Strip(value)
             p == ParseFloat(s)
             sign == Lower(GetRule(rules, "sign"))
         IN IF ContainsAt(s) THEN <<name, "appears to contain an email address but should be a number">>
            ELSE IF StartsWithHttp(s) THEN <<name, "appears to contain a URL but should be a number">>
            ELSE IF ~p.ok THEN <<name, "must be a valid number">>
            ELSE IF sign = "positive" /\ p.num <= 0 THEN <<name, "must be a positive number">>
            ELSE IF sign = "negative" /\ p.num >= 0 THEN <<name, "must be a negative number">>
            ELSE NoError

SvcValidateBoolean(value, name, template) ==
    IF value = "" THEN NoError
    ELSE IF Lower(Strip(value)) \notin BooleanAllowed(template)
         THEN <<name, "must be a valid boolean value", template>>
         ELSE NoError

\* re.match(pattern, s) on the patterns of the model: "[" does not compile
\* (re.error), "^1$" matches the string 1 only
ReMatch(pattern, s) ==
    IF pattern = "[" THEN "error" ELSE IF pattern = "^1$" /\ s = "1" THEN "match" ELSE "nomatch"

\* ValidationService.validate_pattern
SvcValidatePattern(value, name, pattern) ==
    IF value = "" THEN NoError
    ELSE IF ReMatch(pattern, Strip(value)) = "nomatch"
         THEN <<name, "does not match required pattern">>
         ELSE NoError

\* ValidationService.validate_field
SvcValidateField(value, f) ==
    IF f.required /\ SvcValidateRequired(value, f.name) # NoError
        THEN SvcValidateRequired(value, f.name)
    ELSE IF ~f.required /\ value = "" THEN NoError
    ELSE IF Lower(f.type) \in {"number", "numeric", "integer"}
        THEN SvcValidateNumber(value, f.name, Lower(f.type), f.extra_rules)
    ELSE IF Lower(f.type) \in {"boolean", "bool"}
        THEN SvcValidateBoolean(value, f.name,
                 NormalizeTemplate(IF "template" \in DOMAIN f.extra_rules
                                   THEN f.extra_rules["template"] ELSE "any"))
    ELSE IF Lower(f.type) \in {"text", "string", ""} THEN NoError
    ELSE IF "pattern" \in DOMAIN f /\ f["pattern"] # ""
        THEN SvcValidatePattern(value, f.name, f["pattern"])
    ELSE NoError

(* ---------------- app/utils/validator.py (worker pass) ----------------- *)
WrkValidateNumber(value, rules, type) ==
    LET p == ParseFloat(value)
        sign == GetRule(rules, "sign")
    IN IF ContainsAt(value) THEN <<"Value appears to contain an email address but should be a number">>
       ELSE IF StartsWithHttp(value) THEN <<"Value appears to contain a URL but should be a number">>
       ELSE IF ~p.ok THEN <<"Must be a valid number">>
       ELSE IF sign = "positive" /\ p.num <= 0 THEN <<"Must be a positive number">>
       ELSE IF sign = "negative" /\ p.num >= 0 THEN <<"Must be a negative number">>
       ELSE NoError

WrkValidateBoolean(value, rules) ==
    LET template == NormalizeTemplate(IF GetRule(rules, "template") # ""
                                      THEN GetRule(rules, "template") ELSE "any")
    IN IF Lower(value) \notin BooleanAllowed(template)
       THEN <<"Must be a valid boolean value", template>>
       ELSE NoError

\* utils.validator.validate_field
WrkValidateField(value, f) ==
    IF f.required /\ Strip(value) = "" THEN <<f.name, "is required">>
    ELSE IF Strip(value) = "" THEN NoError
    ELSE IF f.type \in {"number", "integer"} THEN WrkValidateNumber(Strip(value), f.extra_rules, f.type)
    ELSE IF f.type = "boolean" THEN WrkValidateBoolean(Strip(value), f.extra_rules)
    ELSE NoError

(* --------------------------- column mapping ---------------------------- *)
\* job.column_mapping is a dict {importer_field: csv_column}, kept here as
\* the sequence of its items in insertion order; None and {} are << >>
MapKeys(m) == {m[i].f : i \in DOMAIN m}
MapGet(m, k) == m[CHOOSE i \in DOMAIN m : m[i].f = k].c

\* {csv_col: importer_field for importer_field, csv_col in mapping.items()}:
\* a later item wins
ReverseGet(m, col) ==
    LET idx == {i \in DOMAIN m : m[i].c = col}
    IN m[CHOOSE i \in idx : \A j \in idx : j <= i].f
ReverseKeys(m) == {m[i].c : i \in DOMAIN m}

\* df.rename(columns=d) for a dict d given by its keys and lookup
RenameColumns(headers, keys, Get(_)) ==
    [i \in DOMAIN headers |-> IF headers[i] \in keys THEN Get(headers[i]) ELSE headers[i]]

\* normalize_header of process_api_import
NormalizeHeader(h) ==
    LET l == Lower(Strip(h))
    IN CASE l = "actives" -> "active"
         [] l = "ages" -> "age"
         [] l = "notes" -> "note"
         [] OTHER -> l

(* ------------------------------- state --------------------------------- *)
VARIABLES
    raw,      \* the uploaded file in object storage: headers and rows
    job,      \* the ImportJob row as committed in the database
    worker,   \* the RQ worker running process_api_import
    promo,    \* promotion tasks, one per update_cell request that started one
    cellReq,  \* update_cell requests inside the promotion wait
    saveTask, \* the background revalidate_and_save_job task
    hist,     \* observation: the last answer (n alternates from one to the next)
    budget,   \* environment: requests the clients may still send
    importer, \* the webhook settings of the job's importer
    webhook   \* the webhook events created for the job: their number, the last payload

vars == <<raw, job, worker, promo, cellReq, saveTask, hist, budget, importer, webhook>>

NoData == [present |-> FALSE, cols |-> << >>, rows |-> << >>]
NoMeta == [present |-> FALSE, headers |-> << >>]

Statuses == {"PENDING_VALIDATION", "PENDING", "PROCESSING", "PROMOTING", "SAVING",
             "VALIDATING", "VALIDATED", "IMPORTING", "COMPLETED", "UNCOMPLETED", "FAILED"}

\* the "Header" marker in a Conflict's row
HeaderRow == 0

\* uploaded files: a header line and 0..MaxRows rows of string cells
HeaderChoices == { <<"age", "Actives">>, <<"note", "active">> }
RowsOfWidth(w) == UNION {[1..n -> [1..w -> Values]] : n \in 0..MaxRows}
ExplicitMapping == << [f |-> "age", c |-> "note"], [f |-> "active", c |-> "active"] >>

\* the attribute values a session holds after loading the row, restricted to
\* the attributes the task reads or assigns later
Loaded(j, attrs) == [k \in attrs |-> j[k]]

\* attributes process_api_import reads or assigns
WorkerAttrs == {"status", "errors", "error_count", "error_message", "column_mapping",
                "file_metadata", "row_count", "processed_rows"}
\* attributes promote_api_job_for_editing reads or assigns besides processed_data
PromoAttrs == {"status", "errors", "error_count", "error_message", "column_mapping",
               "processed_rows"}
NoSnap == << >>

\* SQLAlchemy flush of the assigned attributes: one is written iff its value
\* differs from the one the session loaded; processed_data (flag_modified,
\* not in snap) is always written
Commit(db, snap, assigned) ==
    [k \in DOMAIN db |->
        IF k \in DOMAIN assigned /\ (k \notin DOMAIN snap \/ assigned[k] # snap[k])
        THEN assigned[k] ELSE db[k]]


(* ----------------------------- Init ------------------------------------ *)
\* the state right after submit_import_job: the file is in object storage,
\* the job row is PENDING with the mapping the caller supplied (if any), and
\* process_api_import has been enqueued
\* the import_source column default, taken by a row created without one
DefaultImportSource == "portal"

\* submit_import_job passes no import_source to ImportJob(...)
NewJob(mapping) ==
    [status |-> "PENDING", data |-> NoData, errors |-> << >>, error_count |-> 0,
     error_message |-> "", column_mapping |-> mapping, file_metadata |-> NoMeta,
     row_count |-> 0, processed_rows |-> 0, import_source |-> DefaultImportSource,
     file_path |-> "s3"]

IdleWorker == [pc |-> "idle", left |-> MaxDeliveries, auto |-> FALSE, snap |-> NoSnap]
\* before: the status update_cell found when it took the lock (observation)
IdlePromo == [pc |-> "none", snap |-> NoSnap, before |-> ""]
IdleReq == [pc |-> "none", polls |-> 0]
NoSaveTask == [pending |-> FALSE, rows |-> << >>, headers |-> << >>]

InitHist == [n |-> 0, op |-> "none", code |-> 0, arg |-> << >>]
\* the observation of a request answered with an HTTP status code (0: the
\* request went into the promotion wait), or of a promotion run that returned
\* at once (304)
Answer(op, code, arg) == [n |-> 1 - hist.n, op |-> op, code |-> code, arg |-> arg]

\* an importer with the webhook enabled and data included in it
\* that does not truncate it (100 is the sample size the senders fall back to)
DefaultSampleSize == 100
DefaultImporter ==
    [webhook_enabled |-> TRUE, include_data_in_webhook |-> TRUE,
     truncate_data |-> FALSE, webhook_data_sample_size |-> DefaultSampleSize]

NoPayload == << >>
\* selected: the records the sender had in hand for data and errors before
\* it truncated them (observation)
NoSelection == [data |-> << >>, errors |-> << >>]
NoWebhook == [events |-> 0, last |-> NoPayload, selected |-> NoSelection]

Init ==
    /\ importer = DefaultImporter
    /\ webhook = NoWebhook
    /\ \E h \in HeaderChoices : \E rs \in RowsOfWidth(2) : raw = [headers |-> h, rows |-> rs]
    /\ \E m \in {<< >>, ExplicitMapping} :
          /\ (m # << >> => raw.headers = <<"note", "active">>)
          /\ job = NewJob(m)
    /\ worker = IdleWorker
    /\ promo = [i \in ReqIds |-> IdlePromo]
    /\ cellReq = [i \in ReqIds |-> IdleReq]
    /\ saveTask = NoSaveTask
    /\ hist = InitHist
    /\ budget = MaxEdits

(* ---------------- webhook payloads (import_service.py) ------------------ *)
\* the "status" of a payload
PayloadStatus(status) ==
    IF status = "COMPLETED" THEN "completed"
    ELSE IF status = "UNCOMPLETED" THEN "uncompleted" ELSE "failed"

Max(a, b) == IF a >= b THEN a ELSE b

\* lines 369-388 and 505-524: the payload before data is included
BasePayload(j) ==
    [status |-> PayloadStatus(j.status),
     totalRows |-> j.row_count,
     validRows |-> Max(0, j.row_count - j.error_count),
     errorRows |-> j.error_count,
     data |-> << >>,
     errors |-> << >>,
     data_included |-> importer.include_data_in_webhook,
     truncate_data |-> importer.truncate_data]

\* the records of a frame, each with the 1-based number of its row
Records(rows, keep) ==
    SelectSeqIdx([r \in DOMAIN rows |-> [row |-> r, cells |-> rows[r]]], LAMBDA r : r \in keep)

\* a truncation that keeps the last records
TruncateLast(records) ==
    IF importer.truncate_data /\ Len(records) > importer.webhook_data_sample_size
    THEN SubSeq(records, Len(records) - importer.webhook_data_sample_size + 1, Len(records))
    ELSE records

\* lines 421-423, 434-435, 541-543, 556-557: records[:sample_size] when
\* truncation is enabled and there are more records than that
Truncate(records) ==
    IF importer.truncate_data /\ Len(records) > importer.webhook_data_sample_size
    THEN SubSeq(records, 1, importer.webhook_data_sample_size)
    ELSE records

\* lines 537-538 and 551-552: the records send_webhook_for_api_import takes
\* from its two frames; the failed ones only for an UNCOMPLETED job
ApiSelected(j, valid, failed) ==
    IF importer.include_data_in_webhook
    THEN [data |-> valid, errors |-> IF j.status = "UNCOMPLETED" THEN failed ELSE << >>]
    ELSE NoSelection

\* a sender that includes the rows whatever the importer says
ApiPayloadAlways(j, valid, failed) ==
    [BasePayload(j) EXCEPT !.data = Truncate(valid),
                           !.errors = IF j.status = "UNCOMPLETED" THEN Truncate(failed) ELSE << >>]

\* send_webhook_for_api_import, lines 494-568: the frames of valid and failed
\* rows go into data and errors when the importer includes data
ApiPayload(j, valid, failed) ==
    [BasePayload(j) EXCEPT !.data = Truncate(ApiSelected(j, valid, failed).data),
                           !.errors = Truncate(ApiSelected(j, valid, failed).errors)]

\* a resend that replays the payload of the event stored before
ReplayPayload(j) ==
    IF webhook.last # NoPayload THEN webhook.last ELSE BasePayload(j)

\* send_webhook_for_portal_import, lines 358-446: the records of
\* processed_data go into data; error_df is never filled
PortalSelected(j) ==
    IF importer.include_data_in_webhook
    THEN [data |-> Records(j.data.rows, DOMAIN j.data.rows), errors |-> << >>]
    ELSE NoSelection

PortalPayload(j) ==
    [BasePayload(j) EXCEPT !.data = Truncate(PortalSelected(j).data),
                           !.errors = Truncate(PortalSelected(j).errors)]

\* create_webhook_event: one more event, carrying the payload
Fire(payload, selected) ==
    [events |-> webhook.events + 1, last |-> payload, selected |-> selected]

(* ------------------ process_api_import (api_worker.py) ----------------- *)
\* smart_mapping: exact header matches, then fuzzy matches of the fields and
\* headers left over, each header used once
RECURSIVE SmartMapping(_, _, _)
SmartMapping(i, headers, pool) ==
    IF i > Len(Fields) THEN << >>
    ELSE LET name == Fields[i].name
             cands == {h \in pool : NormalizeHeader(h) = NormalizeHeader(name)}
         IN IF name \in Range(headers)
                THEN <<[f |-> name, c |-> name]>> \o SmartMapping(i + 1, headers, pool)
            ELSE IF cands # {}
                THEN LET h == CHOOSE x \in cands : TRUE
                     IN <<[f |-> name, c |-> h]>> \o SmartMapping(i + 1, headers, pool \ {h})
            ELSE SmartMapping(i + 1, headers, pool)

AutoMapping(headers) == SmartMapping(1, headers, Range(headers) \ FieldNames)

\* the mapping can be auto-created: every required field matched, some match
CanAutoMap(headers) ==
    /\ RequiredFields \subseteq MapKeys(AutoMapping(headers))
    /\ AutoMapping(headers) # << >>

\* df.columns after the reverse mapping was applied
MappedHeaders(headers, mapping) ==
    IF mapping # << >>
    THEN RenameColumns(headers, ReverseKeys(mapping), LAMBDA c : ReverseGet(mapping, c))
    ELSE headers

MissingRequired(hs) == RequiredFields \ Range(hs)
FieldOverlap(hs) == FieldNames \cap Range(hs)

\* step 5 of the worker: the error message of a failed header validation,
\* "" when the headers pass
HeaderFailure(hs, auto, mapping) ==
    IF MissingRequired(hs) # {} THEN "Required fields are missing"
    ELSE IF FieldOverlap(hs) = {} THEN "No matching fields found between CSV and importer configuration."
    ELSE IF ~auto /\ mapping = << >> /\ Cardinality(FieldOverlap(hs)) < Cardinality(FieldNames)
        THEN "Only some fields match. Please provide a column mapping."
    ELSE ""

\* the "Header" conflicts of a failed header validation
HeaderErrors(hs, msg) ==
    IF MissingRequired(hs) # {}
    THEN SelectSeqIdx([i \in DOMAIN Fields |->
                          [row |-> HeaderRow, column |-> Fields[i].name,
                           message |-> <<"Required field is missing from the data file.">>]],
                      LAMBDA i : Fields[i].name \in MissingRequired(hs))
    ELSE <<[row |-> HeaderRow, column |-> "Mapping", message |-> <<msg>>]>>

\* the conflicts of one row: every schema field present in the frame
RowErrors(hs, rows, r) ==
    LET cell(i) == rows[r][IndexOf(hs, Fields[i].name)]
        all == [i \in DOMAIN Fields |->
                   IF Fields[i].name \in Range(hs)
                   THEN [row |-> r, column |-> Fields[i].name, value |-> cell(i),
                         message |-> WrkValidateField(cell(i), Fields[i])]
                   ELSE [row |-> r, column |-> Fields[i].name, value |-> "", message |-> NoError]]
    IN SelectSeqIdx(all, LAMBDA i : all[i].message # NoError)

StructuralErrors(hs) ==
    SelectSeqIdx([i \in DOMAIN Fields |->
                     [row |-> HeaderRow, column |-> Fields[i].name,
                      message |-> <<"Required column is missing from the CSV file.">>]],
                 LAMBDA i : Fields[i].name \notin Range(hs) /\ Fields[i].required)

WorkerErrors(hs, rows) ==
    StructuralErrors(hs) \o Flatten([r \in DOMAIN rows |-> RowErrors(hs, rows, r)])

IsHeaderError(e) == e.row = HeaderRow
ErrorRows(errs) == {errs[i].row : i \in {j \in DOMAIN errs : ~IsHeaderError(errs[j])}}
HasStructural(errs) == \E i \in DOMAIN errs : IsHeaderError(errs[i])

\* a worker that completes every job that passed header validation
WorkerStatusCompleted(errs) == "COMPLETED"

\* status chosen by the worker from its validation results
WorkerStatus(errs) ==
    IF HasStructural(errs) \/ ErrorRows(errs) # {} THEN "UNCOMPLETED" ELSE "COMPLETED"

WorkerErrorCount(errs, nrows) ==
    IF HasStructural(errs) THEN nrows ELSE Cardinality(ErrorRows(errs))

\* lines 41-62: fetch the job, mark it PROCESSING, commit
WorkerStart ==
    /\ worker.pc = "idle"
    /\ worker.left > 0
    /\ job' = [job EXCEPT !.status = "PROCESSING"]
    /\ worker' = [pc |-> "load", left |-> worker.left - 1, auto |-> FALSE, snap |-> Loaded(job', WorkerAttrs)]
    /\ UNCHANGED <<importer, webhook, raw, promo, cellReq, saveTask, hist, budget>>

\* a worker whose load error ends the run without a commit
WorkerLoadAborts ==
    /\ worker.pc = "load"
    /\ worker' = [worker EXCEPT !.pc = "idle", !.auto = FALSE, !.snap = NoSnap]
    /\ UNCHANGED <<importer, webhook, raw, job, promo, cellReq, saveTask, hist, budget>>

\* lines 64-93 and 496-506: the file cannot be read; the job is FAILED
WorkerLoadFails ==
    /\ worker.pc = "load"
    /\ job' = Commit(job, worker.snap,
                     [status |-> "FAILED", error_message |-> "Failed to parse data file"])
    /\ worker' = [worker EXCEPT !.pc = "idle", !.auto = FALSE, !.snap = NoSnap]
    /\ UNCHANGED <<importer, webhook, raw, promo, cellReq, saveTask, hist, budget>>

\* a worker that resolves the mapping again on every pass, from the frame as
\* the stored mapping renames it
WorkerLoadRemaps ==
    /\ worker.pc = "load"
    /\ LET hs == MappedHeaders(raw.headers, worker.snap.column_mapping)
           create == CanAutoMap(hs)
       IN /\ job' = IF create
                    THEN Commit(job, worker.snap, [column_mapping |-> AutoMapping(hs)])
                    ELSE job
          /\ worker' = [worker EXCEPT !.pc = "validate", !.auto = create,
                                      !.snap = IF create THEN Loaded(job', WorkerAttrs)
                                               ELSE worker.snap]
    /\ UNCHANGED <<importer, webhook, raw, promo, cellReq, saveTask, hist, budget>>

\* lines 64-163: the file is read; a missing mapping is auto-created and
\* committed when every required field has a matching header
WorkerLoad ==
    /\ worker.pc = "load"
    /\ LET create == worker.snap.column_mapping = << >> /\ CanAutoMap(raw.headers)
       IN /\ job' = IF create
                    THEN Commit(job, worker.snap, [column_mapping |-> AutoMapping(raw.headers)])
                    ELSE job
          /\ worker' = [worker EXCEPT !.pc = "validate", !.auto = create,
                                      !.snap = IF create THEN Loaded(job', WorkerAttrs)
                                               ELSE worker.snap]
    /\ UNCHANGED <<importer, webhook, raw, promo, cellReq, saveTask, hist, budget>>

\* lines 165-343: header validation, then row validation; commits FAILED
\* with Header conflicts, or the conflicts and COMPLETED/UNCOMPLETED
WorkerValidate ==
    /\ worker.pc = "validate"
    /\ LET snap == worker.snap
           hs == MappedHeaders(raw.headers, snap.column_mapping)
           msg == HeaderFailure(hs, worker.auto, snap.column_mapping)
           errs == WorkerErrors(hs, raw.rows)
           failed == [status |-> "FAILED", error_message |-> msg,
                      row_count |-> Len(raw.rows), processed_rows |-> 0,
                      error_count |-> IF MissingRequired(hs) # {}
                                      THEN Cardinality(MissingRequired(hs)) ELSE 1,
                      errors |-> HeaderErrors(hs, msg)]
           passed == [row_count |-> Len(raw.rows), status |-> WorkerStatus(errs),
                      processed_rows |-> Len(raw.rows),
                      error_count |-> WorkerErrorCount(errs, Len(raw.rows)),
                      errors |-> errs]
       IN /\ job' = Commit(job, snap, IF msg # "" THEN failed ELSE passed)
          /\ worker' = IF msg # ""
                        THEN [worker EXCEPT !.pc = "idle", !.auto = FALSE, !.snap = NoSnap]
                        ELSE [worker EXCEPT !.pc = "finalize", !.snap = Loaded(job', WorkerAttrs)]
    /\ UNCHANGED <<importer, webhook, raw, promo, cellReq, saveTask, hist, budget>>

\* lines 345-372 and 451-461: the rows the worker sends as valid and as
\* failed, from the conflicts of its own validation
WorkerValidRows(errs, rows) ==
    IF HasStructural(errs) THEN << >> ELSE Records(rows, DOMAIN rows \ ErrorRows(errs))

WorkerFailedRows(errs, rows) ==
    IF HasStructural(errs) THEN Records(rows, DOMAIN rows) ELSE Records(rows, ErrorRows(errs))

\* lines 444-479: the payload of the worker's webhook; the job attributes
\* are those the session reloads after the commit of line 422
WorkerPayload(j, errs, rows) ==
    ApiPayload(j, WorkerValidRows(errs, rows), WorkerFailedRows(errs, rows))

WorkerSelected(j, errs, rows) ==
    ApiSelected(j, WorkerValidRows(errs, rows), WorkerFailedRows(errs, rows))

\* lines 374-506: result files, file_metadata, webhook, final commit; a
\* webhook exception rolls the session back before the final commit
WorkerFinalize ==
    /\ worker.pc = "finalize"
    /\ \E webhookRaises \in BOOLEAN :
          /\ job' = IF webhookRaises THEN job
                    ELSE Commit(job, worker.snap,
                                [file_metadata |-> [present |-> TRUE, headers |-> raw.headers]])
          /\ webhook' =
                IF importer.webhook_enabled /\ ~webhookRaises
                THEN Fire(WorkerPayload(job,
                              WorkerErrors(MappedHeaders(raw.headers, worker.snap.column_mapping),
                                           raw.rows),
                              raw.rows),
                          WorkerSelected(job,
                              WorkerErrors(MappedHeaders(raw.headers, worker.snap.column_mapping),
                                           raw.rows),
                              raw.rows))
                ELSE webhook
    /\ worker' = [worker EXCEPT !.pc = "idle", !.auto = FALSE, !.snap = NoSnap]
    /\ UNCHANGED <<importer, raw, promo, cellReq, saveTask, hist, budget>>

(* ------------- promote_api_job_for_editing (imports.py) ---------------- *)
\* a promotion without the early return of line 1015
NeverPromoted(j) == FALSE

\* line 1015: the job is already promoted
AlreadyPromoted(j) == j.data.present

\* line 1048: the mapping renames some column
MeaningfulMapping(m) == m # << >> /\ \E i \in DOMAIN m : m[i].f # m[i].c /\ m[i].c # ""

\* lines 1055-1077: with no mapping the file headers must carry every
\* required field and at least half of the fields
PromoHeaderMismatch(headers) ==
    \/ RequiredFields \ Range(headers) # {}
    \/ 2 * Cardinality(FieldNames \cap Range(headers)) < Cardinality(FieldNames)

PromoHeaderErrors(headers) ==
    SelectSeqIdx([i \in DOMAIN Fields |->
                     [row |-> HeaderRow, column |-> Fields[i].name,
                      message |-> <<"Required field is missing from the CSV file.">>]],
                 LAMBDA i : Fields[i].name \in RequiredFields \ Range(headers))

\* df.to_dict('records') of the frame with its columns renamed
ToRecords(headers, rows) ==
    IF rows = << >> THEN [present |-> TRUE, cols |-> << >>, rows |-> << >>]
    ELSE [present |-> TRUE, cols |-> headers, rows |-> rows]

\* lines 1046-1052: the promotion renames with the mapping as stored
PromoHeaders(headers, m) ==
    IF MeaningfulMapping(m)
    THEN RenameColumns(headers, MapKeys(m), LAMBDA k : MapGet(m, k))
    ELSE headers

\* lines 1158-1165: status written by a successful promotion
PromoStatus(loaded) == IF loaded = "COMPLETED" THEN "COMPLETED" ELSE "UNCOMPLETED"

\* lines 1004-1017: the task starts, fetches the job and returns at once when
\* processed_data is there; otherwise it goes on to load the file
PromoteBegin(i) ==
    /\ promo[i].pc = "scheduled"
    /\ IF AlreadyPromoted(job)
       THEN /\ promo' = [promo EXCEPT ![i] = IdlePromo]
            /\ hist' = Answer("promote", 304, << >>)
       ELSE /\ promo' = [promo EXCEPT ![i] = [pc |-> "loading", snap |-> Loaded(job, PromoAttrs),
                                               before |-> promo[i].before]]
            /\ hist' = hist
    /\ UNCHANGED <<importer, webhook, raw, job, worker, cellReq, saveTask, budget>>

\* lines 1029-1044, 1109-1114: the load raises; the job is FAILED
PromoteLoadFails(i) ==
    /\ promo[i].pc = "loading"
    /\ job' = Commit(job, promo[i].snap,
                     [status |-> "FAILED", error_message |-> "Failed to load data for editing"])
    /\ promo' = [promo EXCEPT ![i] = IdlePromo]
    /\ UNCHANGED <<importer, webhook, raw, worker, cellReq, saveTask, hist, budget>>

\* a promotion that starts the promoted job with a clean conflict list
PromoteFinishClearsErrors(i) ==
    /\ promo[i].pc = "loading"
    /\ LET snap == promo[i].snap
           mismatch == snap.column_mapping = << >> /\ PromoHeaderMismatch(raw.headers)
           failed == [status |-> "FAILED",
                      error_message |-> "CSV headers do not match the expected importer field names.",
                      errors |-> PromoHeaderErrors(raw.headers),
                      error_count |-> Len(PromoHeaderErrors(raw.headers)),
                      processed_rows |-> 0]
           done == [data |-> ToRecords(PromoHeaders(raw.headers, snap.column_mapping), raw.rows),
                    status |-> PromoStatus(snap.status),
                    errors |-> << >>, error_count |-> 0]
       IN job' = Commit(job, snap, IF mismatch THEN failed ELSE done)
    /\ promo' = [promo EXCEPT ![i] = IdlePromo]
    /\ UNCHANGED <<importer, webhook, raw, worker, cellReq, saveTask, hist, budget>>

\* lines 1029-1170: the file is loaded; a header mismatch fails the job,
\* otherwise processed_data and the status are committed
PromoteFinish(i) ==
    /\ promo[i].pc = "loading"
    /\ LET snap == promo[i].snap
           mismatch == snap.column_mapping = << >> /\ PromoHeaderMismatch(raw.headers)
           failed == [status |-> "FAILED",
                      error_message |-> "CSV headers do not match the expected importer field names.",
                      errors |-> PromoHeaderErrors(raw.headers),
                      error_count |-> Len(PromoHeaderErrors(raw.headers)),
                      processed_rows |-> 0]
           done == [data |-> ToRecords(PromoHeaders(raw.headers, snap.column_mapping), raw.rows),
                    status |-> PromoStatus(snap.status)]
       IN job' = Commit(job, snap, IF mismatch THEN failed ELSE done)
    /\ promo' = [promo EXCEPT ![i] = IdlePromo]
    /\ UNCHANGED <<importer, webhook, raw, worker, cellReq, saveTask, hist, budget>>

(* ----------------------- update_cell (imports.py) ---------------------- *)
\* e.get('field') or e.get('column')
ErrField(e) ==
    IF "field" \in DOMAIN e /\ e.field # "" THEN e.field
    ELSE IF "column" \in DOMAIN e THEN e.column ELSE ""

\* lines 1913-1920: the importer field mapped to the edited CSV column, the
\* column key itself when none is
FieldOfColumn(m, column_key) ==
    LET idx == {i \in DOMAIN m : m[i].c = column_key}
    IN IF idx = {} THEN column_key
       ELSE m[CHOOSE i \in idx : \A j \in idx : i <= j].f

\* lines 1922-1948: the error message of the new value, NoError when the
\* field has no configuration
CellError(field_name, new_value) ==
    IF HasField(field_name) THEN SvcValidateField(new_value, FieldByName(field_name)) ELSE NoError

\* an edit that appends without removing the cell's previous conflict
KeepAllErrors(errs, row_index, field_name) == errs

\* an edit that drops every conflict of the edited row
KeepOtherRows(errs, row_index, field_name) ==
    SelectSeqIdx(errs, LAMBDA i : errs[i].row # row_index + 1)

\* lines 1964-1967: the conflicts kept by an edit of (row_index, field_name)
KeepOtherCells(errs, row_index, field_name) ==
    SelectSeqIdx(errs, LAMBDA i : ~(errs[i].row = row_index + 1 /\ ErrField(errs[i]) = field_name))

\* lines 1961-1975
UpdatedErrors(errs, row_index, field_name, new_value) ==
    KeepOtherCells(errs, row_index, field_name)
      \o (IF CellError(field_name, new_value) # NoError
          THEN <<[row |-> row_index + 1, field |-> field_name, value |-> new_value,
                  error |-> CellError(field_name, new_value)]>>
          ELSE << >>)

\* the status rule of the legacy revalidation (line 2381) in its place
StatusAlwaysUncompleted(errs) == "UNCOMPLETED"

\* a status rule that fails a job with conflicts
StatusFailsOnErrors(errs) == IF Len(errs) = 0 THEN "COMPLETED" ELSE "FAILED"

\* lines 1980-1988 and 2188-2194
StatusForErrors(errs) == IF Len(errs) = 0 THEN "COMPLETED" ELSE "UNCOMPLETED"

\* lines 1888-1893: the request is answered 400
BadCell(j, row_index, column_key) ==
    \/ ~(0 <= row_index /\ row_index < Len(j.data.rows))
    \/ column_key \notin Range(j.data.cols)

\* lines 1895-1897: record[column_key] = new_value
SetCell(d, row_index, column_key, new_value) ==
    [d EXCEPT !.rows[row_index + 1][IndexOf(d.cols, column_key)] = new_value]

\* lines 1885-2005: the edit of a promoted job, as committed
EditedJob(j, row_index, column_key, new_value) ==
    LET field_name == FieldOfColumn(j.column_mapping, column_key)
        errs == UpdatedErrors(j.errors, row_index, field_name, new_value)
    IN [j EXCEPT !.data = SetCell(j.data, row_index, column_key, new_value),
                 !.errors = errs,
                 !.error_count = Len(errs),
                 !.status = StatusForErrors(errs)]

RowIndexes == 0..MaxRows
\* column keys a client sends: the columns of the file and an unknown one
ColumnKeys == Range(raw.headers) \cup {"other"}

\* lines 1835-1846: an unpromoted job whose promotion is in progress: 425
UpdateCellTooEarly(row_index, column_key, new_value) ==
    /\ ~job.data.present
    /\ job.status = "PROMOTING"
    /\ hist' = Answer("update_cell", 425, << >>)
    /\ UNCHANGED <<importer, webhook, raw, job, worker, promo, cellReq, saveTask>>

\* lines 1835-1859: an unpromoted job: take the PROMOTING lock, schedule the
\* promotion task and start polling
UpdateCellPromote(i, row_index, column_key, new_value) ==
    /\ ~job.data.present
    /\ job.status # "PROMOTING"
    /\ cellReq[i].pc = "none" /\ promo[i].pc = "none"
    /\ \A k \in 1..(i-1) : ~(cellReq[k].pc = "none" /\ promo[k].pc = "none")
    /\ job' = [job EXCEPT !.status = "PROMOTING"]
    /\ promo' = [promo EXCEPT ![i] = [pc |-> "scheduled", snap |-> NoSnap, before |-> job.status]]
    /\ cellReq' = [cellReq EXCEPT ![i] = [pc |-> "poll", polls |-> MaxPolls]]
    /\ hist' = Answer("update_cell", 0, << >>)
    /\ UNCHANGED <<importer, webhook, raw, worker, saveTask>>

\* a handler that books the cell's conflict before it validates the indices
UpdateCellDirectBooksFirst(row_index, column_key, new_value) ==
    /\ job.data.present
    /\ IF BadCell(job, row_index, column_key)
       THEN LET errs == UpdatedErrors(job.errors, row_index,
                                      FieldOfColumn(job.column_mapping, column_key), new_value)
            IN /\ hist' = Answer("update_cell", 400, << >>)
               /\ job' = [job EXCEPT !.errors = errs, !.error_count = Len(errs)]
       ELSE /\ hist' = Answer("update_cell", 200, <<row_index, column_key, new_value>>)
            /\ job' = EditedJob(job, row_index, column_key, new_value)
    /\ UNCHANGED <<importer, webhook, raw, worker, promo, cellReq, saveTask>>

\* lines 1880-2041: a promoted job: validate indices, apply and commit
UpdateCellDirect(row_index, column_key, new_value) ==
    /\ job.data.present
    /\ IF BadCell(job, row_index, column_key)
       THEN /\ hist' = Answer("update_cell", 400, << >>)
            /\ job' = job
       ELSE /\ hist' = Answer("update_cell", 200, <<row_index, column_key, new_value>>)
            /\ job' = EditedJob(job, row_index, column_key, new_value)
    /\ UNCHANGED <<importer, webhook, raw, worker, promo, cellReq, saveTask>>

\* an exit test that looks at the lock only
PromotionLeftLock(j) == j.status # "PROMOTING"

\* line 1868: the poll loop's exit test after db.refresh
PromotionSeen(j) == j.data.present /\ j.status # "PROMOTING"

\* lines 1862-1878, then 1880-2041: one iteration of the poll loop of the
\* request that took the lock; on success the request's edit (row_index,
\* column_key, new_value) is applied in the same request, after the last
\* iteration the request is answered 425
UpdateCellPoll(i) ==
    /\ cellReq[i].pc = "poll"
    /\ IF PromotionSeen(job)
       THEN /\ cellReq' = [cellReq EXCEPT ![i] = IdleReq]
            /\ \E row_index \in RowIndexes, column_key \in ColumnKeys, new_value \in Values :
                  IF BadCell(job, row_index, column_key)
                  THEN /\ hist' = Answer("update_cell", 400, << >>)
                       /\ job' = job
                  ELSE /\ hist' = Answer("update_cell", 200, <<row_index, column_key, new_value>>)
                       /\ job' = EditedJob(job, row_index, column_key, new_value)
       ELSE IF cellReq[i].polls > 1
       THEN /\ cellReq' = [cellReq EXCEPT ![i].polls = cellReq[i].polls - 1]
            /\ UNCHANGED <<job, hist>>
       ELSE /\ cellReq' = [cellReq EXCEPT ![i] = IdleReq]
            /\ hist' = Answer("update_cell", 425, << >>)
            /\ job' = job
    /\ UNCHANGED <<importer, webhook, raw, worker, promo, saveTask, budget>>

\* an update_cell request arrives
UpdateCell ==
    \E row_index \in RowIndexes, column_key \in ColumnKeys, new_value \in Values :
        \/ UpdateCellTooEarly(row_index, column_key, new_value)
        \/ \E i \in ReqIds : UpdateCellPromote(i, row_index, column_key, new_value)
        \/ UpdateCellDirect(row_index, column_key, new_value)

\* an update_cell request inside the promotion wait goes on
UpdateCellWait == \E i \in ReqIds : UpdateCellPoll(i)

(* --------------- optimized_save_and_validate, save_data ---------------- *)
\* tables the grid sends: the headers are absent or those of the file
RequestHeaders == {<< >>, raw.headers}
RequestRows == RowsOfWidth(2)

StartsWithUnderscore(name) == name \in {"_header_warning"}

\* lines 2097-2103 and 2291-2297: csv_column_to_field is built from the items
\* that name a CSV column and are no special key
SaveMapping(m) == SelectSeqIdx(m, LAMBDA i : m[i].c # "" /\ ~StartsWithUnderscore(m[i].f))

\* existing_row.get(column_header, '')
ExistingValue(d, r, column_header) ==
    IF column_header \in Range(d.cols) THEN d.rows[r][IndexOf(d.cols, column_header)] ELSE ""

\* lines 2090-2093: the request's headers, else the keys of the first record
SaveHeaders(d, headers) ==
    IF headers # << >> THEN headers ELSE IF Len(d.rows) > 0 THEN d.cols ELSE << >>

\* lines 2105-2127: the mapped cells of new rows and the mapped cells whose
\* value differs from the stored one, in row order
ChangedCells(d, new_data, hs, m) ==
    Flatten([r \in DOMAIN new_data |->
        SelectSeqIdx([c \in DOMAIN new_data[r] |->
                         [row_idx |-> r - 1, column_header |-> IF c <= Len(hs) THEN hs[c] ELSE "",
                          value |-> new_data[r][c]]],
                     LAMBDA c : /\ c <= Len(hs)
                                /\ hs[c] \in ReverseKeys(SaveMapping(m))
                                /\ \/ r > Len(d.rows)
                                   \/ new_data[r][c] # ExistingValue(d, r, hs[c]))])

\* the Conflict of a validated cell, as optimized_save_and_validate and
\* revalidate_and_save_job build it
SaveError(row_idx, field_name, column_header, value) ==
    [row |-> row_idx + 1, field |-> field_name, column |-> column_header, value |-> value,
     error |-> SvcValidateField(value, FieldByName(field_name))]

\* lines 2131-2148
NewErrors(changed, m) ==
    LET all == [i \in DOMAIN changed |->
                   LET field_name == ReverseGet(SaveMapping(m), changed[i].column_header)
                   IN IF HasField(field_name)
                      THEN SaveError(changed[i].row_idx, field_name,
                                     changed[i].column_header, changed[i].value)
                      ELSE [row |-> changed[i].row_idx + 1, error |-> NoError]]
    IN SelectSeqIdx(all, LAMBDA i : all[i].error # NoError)

\* lines 2155-2156
ChangedPositions(changed, m) ==
    {<<changed[i].row_idx, ReverseGet(SaveMapping(m), changed[i].column_header)>> : i \in DOMAIN changed}

\* error.get('field', error.get('column', ''))
SaveErrField(e) ==
    IF "field" \in DOMAIN e THEN e.field ELSE IF "column" \in DOMAIN e THEN e.column ELSE ""

\* lines 2158-2161: the stored conflicts of the cells that did not change
UnchangedErrors(errs, positions) ==
    SelectSeqIdx(errs, LAMBDA i : <<errs[i].row - 1, SaveErrField(errs[i])>> \notin positions)

\* line 2159: error.get('row', 0) - 1 raises TypeError on the "Header" marker
SaveRaises(j) == \E i \in DOMAIN j.errors : IsHeaderError(j.errors[i])

\* lines 2167-2172 and 2346-2358: the rows as records keyed by the headers
UpdatedData(new_data, hs) ==
    IF new_data = << >> THEN [present |-> TRUE, cols |-> << >>, rows |-> << >>]
    ELSE [present |-> TRUE, cols |-> hs,
          rows |-> [r \in DOMAIN new_data |->
                       [c \in DOMAIN hs |-> IF c <= Len(new_data[r]) THEN new_data[r][c] ELSE ""]]]

\* lines 2080-2196: the job as optimized_save_and_validate commits it
OptimizedSave(j, new_data, headers) ==
    LET hs == SaveHeaders(j.data, headers)
        changed == ChangedCells(j.data, new_data, hs, j.column_mapping)
        all_errors == UnchangedErrors(j.errors, ChangedPositions(changed, j.column_mapping))
                        \o NewErrors(changed, j.column_mapping)
    IN [j EXCEPT !.data = UpdatedData(new_data, hs),
                 !.errors = all_errors,
                 !.error_count = Len(all_errors),
                 !.status = StatusForErrors(all_errors)]

\* lines 2131-2137, 2190: validated_cells, one for each changed cell whose
\* field is a field of the importer
ValidatedCells(j, new_data, headers) ==
    LET changed == ChangedCells(j.data, new_data, SaveHeaders(j.data, headers), j.column_mapping)
    IN Cardinality({i \in DOMAIN changed :
                       HasField(ReverseGet(SaveMapping(j.column_mapping), changed[i].column_header))})

\* save_data, lines 2395-2482: the optimized save, or on its exception the
\* SAVING lock and the background revalidation (one task pending at a time)
SaveData(headers, new_data) ==
    /\ IF SaveRaises(job)
       THEN /\ ~saveTask.pending
            /\ job' = [job EXCEPT !.status = "SAVING"]
            /\ saveTask' = [pending |-> TRUE, rows |-> new_data, headers |-> headers]
            /\ hist' = Answer("save_data", 202, << >>)
       ELSE /\ job' = OptimizedSave(job, new_data, headers)
            /\ saveTask' = saveTask
            /\ hist' = Answer("save_data", 200, <<ValidatedCells(job, new_data, headers)>>)
    /\ UNCHANGED <<importer, webhook, raw, worker, promo, cellReq>>

(* --------------------- revalidate_and_save_job ------------------------- *)
GenericHeaders(n) == [i \in 1..n |-> IF i = 1 THEN "Column_0" ELSE "Column_1"]

\* lines 2254-2280: the column structure, by priority
RevalHeaders(j, provided, rows) ==
    IF j.data.present /\ Len(j.data.rows) > 0 /\ j.data.cols # << >> THEN j.data.cols
    ELSE IF j.file_metadata.present /\ j.file_metadata.headers # << >> THEN j.file_metadata.headers
    ELSE IF provided # << >> THEN provided
    ELSE IF rows # << >> THEN GenericHeaders(Len(rows[1]))
    ELSE << >>

\* lines 2302-2341: the conflicts of every mapped cell of the table
FullErrors(hs, rows, m) ==
    Flatten([r \in DOMAIN rows |->
        LET field(c) == ReverseGet(SaveMapping(m), hs[c])
            checked(c) == /\ c <= Len(rows[r])
                          /\ hs[c] \in ReverseKeys(SaveMapping(m))
                          /\ HasField(field(c))
            all == [c \in DOMAIN hs |->
                       IF checked(c) THEN SaveError(r - 1, field(c), hs[c], rows[r][c])
                       ELSE [row |-> r, error |-> NoError]]
        IN SelectSeqIdx(all, LAMBDA c : all[c].error # NoError)])

\* lines 2229-2383: the job as the background revalidation commits it
Revalidated(j, rows, provided) ==
    LET hs == RevalHeaders(j, provided, rows)
        errs == FullErrors(hs, rows, j.column_mapping)
    IN IF hs = << >>
       THEN [j EXCEPT !.status = "FAILED",
                      !.error_message = "No column structure found for revalidation."]
       ELSE [j EXCEPT !.data = UpdatedData(rows, hs),
                      !.errors = errs,
                      !.error_count = Len(errs),
                      !.status = "UNCOMPLETED"]

RevalidateAndSaveJob ==
    /\ saveTask.pending
    /\ job' = Revalidated(job, saveTask.rows, saveTask.headers)
    /\ saveTask' = NoSaveTask
    /\ UNCHANGED <<importer, webhook, raw, worker, promo, cellReq, hist, budget>>

(* -------------------------- validate_conflicts ------------------------- *)
HasKey(e, k) == k \in DOMAIN e

\* line 2569: next((h for h, f in column_mapping.items() if f == field_key), None)
\* the key of the first item whose value is field_key, "" for None
HeaderOfField(m, field_key) ==
    LET idx == {i \in DOMAIN m : m[i].c = field_key}
    IN IF idx = {} THEN "" ELSE m[CHOOSE i \in idx : \A k \in idx : i <= k].f

\* line 2570: job.file_metadata is None for a conflict that is looked at
ValidateRaises(j) ==
    /\ ~j.file_metadata.present
    /\ \E i \in DOMAIN j.errors : HasKey(j.errors[i], "row") /\ HasKey(j.errors[i], "field")

\* lines 2559-2589: the re-check of one stored conflict: the message of the
\* freshly supplied value, NoError when the conflict is skipped or resolved
Recheck(j, e, data) ==
    IF ~(HasKey(e, "row") /\ HasKey(e, "field")) THEN NoError
    ELSE LET csv_header == HeaderOfField(j.column_mapping, e.field)
             original_headers == j.file_metadata.headers
             col_idx == IndexOf(original_headers, csv_header) - 1
             row_idx == e.row - 1
         IN IF csv_header = "" \/ csv_header \notin Range(original_headers) THEN NoError
            ELSE IF ~(row_idx < Len(data) /\ col_idx < Len(data[row_idx + 1])) THEN NoError
            ELSE IF ~HasField(e.field) THEN NoError
            ELSE SvcValidateField(data[row_idx + 1][col_idx + 1], FieldByName(e.field))

RecheckedValue(j, e, data) ==
    data[e.row][IndexOf(j.file_metadata.headers, HeaderOfField(j.column_mapping, e.field))]

\* the conflicts list of the response
RemainingConflicts(j, data) ==
    LET all == [i \in DOMAIN j.errors |->
                   IF Recheck(j, j.errors[i], data) # NoError
                   THEN [j.errors[i] EXCEPT !.value = RecheckedValue(j, j.errors[i], data),
                                            !.error = Recheck(j, j.errors[i], data)]
                   ELSE j.errors[i]]
    IN SelectSeqIdx(all, LAMBDA i : Recheck(j, j.errors[i], data) # NoError)

\* lines 2591-2594
ResolvedCount(j, data) == Len(j.errors) - Len(RemainingConflicts(j, data))

\* a handler that stores the remaining conflicts as the job's errors
AfterValidateConflictsSaved(j, data) ==
    [j EXCEPT !.errors = RemainingConflicts(j, data),
              !.error_count = Len(RemainingConflicts(j, data))]

\* the row after the request: validate_conflicts never commits its session
AfterValidateConflicts(j, data) == j

\* validate_conflicts, lines 2530-2594
ValidateConflicts(data) ==
    /\ job' = IF ValidateRaises(job) THEN job ELSE AfterValidateConflicts(job, data)
    /\ hist' = Answer("validate_conflicts", IF ValidateRaises(job) THEN 500 ELSE 200, data)
    /\ UNCHANGED <<importer, webhook, raw, worker, promo, cellReq, saveTask>>

(* --------------------------- specifications --------------------------- *)
\* a client sends one of the MaxEdits requests of a concurrent run
Arrival == budget > 0 /\ budget' = budget - 1

\* every interleaving of the worker, the promotion tasks, the background
\* revalidation and the requests
Next ==
    \/ WorkerStart
    \/ WorkerLoadFails
    \/ WorkerLoad
    \/ WorkerValidate
    \/ WorkerFinalize
    \/ \E i \in ReqIds : PromoteBegin(i)
    \/ \E i \in ReqIds : PromoteLoadFails(i)
    \/ \E i \in ReqIds : PromoteFinish(i)
    \/ Arrival /\ UpdateCell
    \/ UpdateCellWait
    \/ Arrival /\ \E headers \in RequestHeaders, new_data \in RequestRows : SaveData(headers, new_data)
    \/ RevalidateAndSaveJob
    \/ Arrival /\ \E data \in RequestRows : ValidateConflicts(data)

Spec == Init /\ [][Next]_vars

\* the worker process and the executor threads run a task they started to
\* its end. A step of a task is enabled exactly while the task is at that
\* step and every such step moves the task on, so weak fairness of the step
\* says that the task is not at that step for ever; it is written so for the
\* steps whose successor is costly to compute
FairSpec ==
    /\ Spec
    /\ WF_vars(WorkerLoadFails \/ WorkerLoad)
    /\ []<>(worker.pc # "validate")
    /\ []<>(worker.pc # "finalize")
    /\ \A i \in ReqIds : /\ WF_vars(PromoteBegin(i))
                          /\ []<>(promo[i].pc # "loading")

\* an editing session: the job is delivered to the worker once, and the client
\* sends a request, any number of them, only when the worker pass is over and
\* no promotion, no waiting request and no background revalidation is in flight
Settled ==
    /\ worker.pc = "idle"
    /\ job.status # "PENDING"
    /\ \A i \in ReqIds : promo[i].pc = "none" /\ cellReq[i].pc = "none"
    /\ ~saveTask.pending

\* a request of the editing session
InSession == Settled /\ budget' = budget

EditNext ==
    \/ job.status = "PENDING" /\ WorkerStart
    \/ WorkerLoadFails
    \/ WorkerLoad
    \/ WorkerValidate
    \/ WorkerFinalize
    \/ \E i \in ReqIds : PromoteBegin(i)
    \/ \E i \in ReqIds : PromoteLoadFails(i)
    \/ \E i \in ReqIds : PromoteFinish(i)
    \/ InSession /\ \E row_index \in RowIndexes, column_key \in ColumnKeys, new_value \in Values :
                        \/ \E i \in ReqIds : UpdateCellPromote(i, row_index, column_key, new_value)
                        \/ UpdateCellDirect(row_index, column_key, new_value)
    \/ UpdateCellWait
    \/ InSession /\ \E headers \in RequestHeaders, new_data \in RequestRows : SaveData(headers, new_data)
    \/ RevalidateAndSaveJob
    \/ InSession /\ \E data \in RequestRows : ValidateConflicts(data)

EditSpec == Init /\ [][EditNext]_vars

(* ------------------ resend_webhook (imports.py) ------------------------- *)
\* send_webhook_notification, lines 655-671: the rows of the stored file whose
\* number is the integer row of a conflict are the failed ones
ResendValidRows(errs, rows) == Records(rows, DOMAIN rows \ ErrorRows(errs))
ResendFailedRows(errs, rows) == Records(rows, DOMAIN rows \cap ErrorRows(errs))

\* the events a job may collect
MaxEvents == 2

\* POST /imports/{id}/resend-webhook, lines 627-705, with
\* send_webhook_notification (import_service.py 593-679): a promoted job is
\* sent from processed_data, an unpromoted one from its stored file
ResendWebhook ==
    /\ webhook.events < MaxEvents
    /\ IF job.status \notin {"COMPLETED", "UNCOMPLETED"} \/ ~importer.webhook_enabled
       THEN /\ hist' = Answer("resend_webhook", 400, << >>)
            /\ UNCHANGED webhook
       ELSE IF job.data.present
       THEN /\ webhook' = Fire(PortalPayload(job), PortalSelected(job))
            /\ hist' = Answer("resend_webhook", 200, <<"sent">>)
       ELSE \E readable \in BOOLEAN :
              IF ~readable \/ raw.rows = << >>
              THEN /\ hist' = Answer("resend_webhook", 200, <<"failed">>)
                   /\ UNCHANGED webhook
              ELSE /\ webhook' = Fire(ApiPayload(job, ResendValidRows(job.errors, raw.rows),
                                                 ResendFailedRows(job.errors, raw.rows)),
                                      ApiSelected(job, ResendValidRows(job.errors, raw.rows),
                                                  ResendFailedRows(job.errors, raw.rows)))
                   /\ hist' = Answer("resend_webhook", 200, <<"sent">>)
    /\ UNCHANGED <<importer, raw, job, worker, promo, cellReq, saveTask>>

\* the requests of one session with resends
MaxSessionRequests == 3

\* the webhook settings an importer may have
ImporterConfigs ==
    [webhook_enabled : BOOLEAN, include_data_in_webhook : BOOLEAN,
     truncate_data : {FALSE}, webhook_data_sample_size : {DefaultSampleSize}]

WebhookInit ==
    /\ importer \in ImporterConfigs
    /\ webhook = NoWebhook
    /\ \E h \in HeaderChoices : \E rs \in RowsOfWidth(2) : raw = [headers |-> h, rows |-> rs]
    /\ \E m \in {<< >>, ExplicitMapping} :
          /\ (m # << >> => raw.headers = <<"note", "active">>)
          /\ job = NewJob(m)
    /\ worker = IdleWorker
    /\ promo = [i \in ReqIds |-> IdlePromo]
    /\ cellReq = [i \in ReqIds |-> IdleReq]
    /\ saveTask = NoSaveTask
    /\ hist = InitHist
    /\ budget = MaxSessionRequests

\* an editing session of at most MaxSessionRequests requests in which the
\* client may also ask for a resend
InWebhookSession == Settled /\ Arrival

WebhookNext ==
    \/ job.status = "PENDING" /\ WorkerStart
    \/ WorkerLoadFails
    \/ WorkerLoad
    \/ WorkerValidate
    \/ WorkerFinalize
    \/ \E i \in ReqIds : PromoteBegin(i)
    \/ \E i \in ReqIds : PromoteLoadFails(i)
    \/ \E i \in ReqIds : PromoteFinish(i)
    \/ InWebhookSession /\ \E row_index \in RowIndexes, column_key \in ColumnKeys, new_value \in Values :
                        \/ \E i \in ReqIds : UpdateCellPromote(i, row_index, column_key, new_value)
                        \/ UpdateCellDirect(row_index, column_key, new_value)
    \/ UpdateCellWait
    \/ InWebhookSession /\ \E headers \in RequestHeaders, new_data \in RequestRows : SaveData(headers, new_data)
    \/ RevalidateAndSaveJob
    \/ InWebhookSession /\ ResendWebhook

WebhookSpec == WebhookInit /\ [][WebhookNext]_vars

(* ----------------- get_import_data (imports.py) ------------------------- *)
\* a job row of an earlier deployment: its file is on the local disk and not
\* in object storage
LegacyJob(mapping) == [NewJob(mapping) EXCEPT !.file_path = "local"]

\* GET /imports/{id}/data, lines 1219-1790: the grid's view of the job. A
\* FAILED, PENDING or PROCESSING job is answered with its state, a PROMOTING
\* one from its file, a promoted one from processed_data, an unpromoted one
\* in object storage from its file; for an unpromoted one with a local file
\* (lines 1651-1659) the handler commits PROMOTING and schedules
\* promote_api_job_to_portal_managed
GetImportData(i) ==
    /\ promo[i].pc = "none"
    /\ \A k \in 1..(i-1) : promo[k].pc # "none"
    /\ IF job.status = "FAILED"
       THEN /\ hist' = Answer("get_import_data", 200, <<"error">>)
            /\ UNCHANGED <<job, promo>>
       ELSE IF job.status \in {"PENDING", "PROCESSING"}
       THEN /\ hist' = Answer("get_import_data", 200, <<"processing">>)
            /\ UNCHANGED <<job, promo>>
       ELSE IF job.status = "PROMOTING" \/ job.data.present \/ job.file_path = "s3"
       THEN /\ hist' = Answer("get_import_data", 200, <<"data">>)
            /\ UNCHANGED <<job, promo>>
       ELSE /\ job' = [job EXCEPT !.status = "PROMOTING"]
            /\ promo' = [promo EXCEPT ![i] = [pc |-> "legacy", snap |-> NoSnap, before |-> job.status]]
            /\ hist' = Answer("get_import_data", 200, <<"data">>)
    /\ UNCHANGED <<importer, webhook, raw, worker, cellReq, saveTask>>

\* promote_api_job_to_portal_managed, lines 922-932: the task fetches the
\* job and returns at once when processed_data is there
LegacyPromoteBegin(i) ==
    /\ promo[i].pc = "legacy"
    /\ promo' = [promo EXCEPT ![i] =
                    IF job.data.present THEN IdlePromo
                    ELSE [pc |-> "legacy_loading", snap |-> Loaded(job, PromoAttrs),
                          before |-> promo[i].before]]
    /\ UNCHANGED <<importer, webhook, raw, job, worker, cellReq, saveTask, hist, budget>>

\* lines 953-955: df.rename(columns=job.column_mapping)
LegacyHeaders(headers, m) ==
    IF m # << >> THEN RenameColumns(headers, MapKeys(m), LAMBDA k : MapGet(m, k)) ELSE headers

\* lines 936-968: the file is read, processed_data written, status UNCOMPLETED
LegacyPromoteFinish(i) ==
    /\ promo[i].pc = "legacy_loading"
    /\ job' = Commit(job, promo[i].snap,
                     [data |-> ToRecords(LegacyHeaders(raw.headers, promo[i].snap.column_mapping),
                                         raw.rows),
                      status |-> "UNCOMPLETED"])
    /\ promo' = [promo EXCEPT ![i] = IdlePromo]
    /\ UNCHANGED <<importer, webhook, raw, worker, cellReq, saveTask, hist, budget>>

\* lines 970-975: the file cannot be read; the job is FAILED
LegacyPromoteFails(i) ==
    /\ promo[i].pc = "legacy_loading"
    /\ job' = Commit(job, promo[i].snap,
                     [status |-> "FAILED", error_message |-> "Failed to prepare data for editing."])
    /\ promo' = [promo EXCEPT ![i] = IdlePromo]
    /\ UNCHANGED <<importer, webhook, raw, worker, cellReq, saveTask, hist, budget>>

LegacyInit ==
    /\ importer = DefaultImporter
    /\ webhook = NoWebhook
    /\ \E h \in HeaderChoices : \E rs \in RowsOfWidth(2) : raw = [headers |-> h, rows |-> rs]
    /\ \E m \in {<< >>, ExplicitMapping} :
          /\ (m # << >> => raw.headers = <<"note", "active">>)
          /\ job = LegacyJob(m)
    /\ worker = IdleWorker
    /\ promo = [i \in ReqIds |-> IdlePromo]
    /\ cellReq = [i \in ReqIds |-> IdleReq]
    /\ saveTask = NoSaveTask
    /\ hist = InitHist
    /\ budget = MaxEdits

\* a session on a job with a local file: the grid is opened and cells are
\* edited, one request at a time
LegacyNext ==
    \/ job.status = "PENDING" /\ WorkerStart
    \/ WorkerLoadFails
    \/ WorkerLoad
    \/ WorkerValidate
    \/ WorkerFinalize
    \/ \E i \in ReqIds : PromoteBegin(i)
    \/ \E i \in ReqIds : PromoteLoadFails(i)
    \/ \E i \in ReqIds : PromoteFinish(i)
    \/ \E i \in ReqIds : LegacyPromoteBegin(i)
    \/ \E i \in ReqIds : LegacyPromoteFails(i)
    \/ \E i \in ReqIds : LegacyPromoteFinish(i)
    \/ InSession /\ \E i \in ReqIds : GetImportData(i)
    \/ InSession /\ \E row_index \in RowIndexes, column_key \in ColumnKeys, new_value \in Values :
                        \/ \E i \in ReqIds : UpdateCellPromote(i, row_index, column_key, new_value)
                        \/ UpdateCellDirect(row_index, column_key, new_value)
    \/ UpdateCellWait

LegacySpec == LegacyInit /\ [][LegacyNext]_vars

(* ------------------------ payload truncation --------------------------- *)
\* files of up to MaxPayloadRows rows and sample sizes up to MaxSampleSize
MaxPayloadRows == 3
MaxSampleSize == 2

\* importers that include data, with and without truncation
TruncatingConfigs ==
    [webhook_enabled : {TRUE}, include_data_in_webhook : {TRUE},
     truncate_data : BOOLEAN, webhook_data_sample_size : 1..MaxSampleSize]

PayloadInit ==
    /\ importer \in TruncatingConfigs
    /\ webhook = NoWebhook
    /\ \E h \in HeaderChoices :
          \E rs \in UNION {[1..n -> [1..2 -> Values]] : n \in 0..MaxPayloadRows} :
             raw = [headers |-> h, rows |-> rs]
    /\ \E m \in {<< >>, ExplicitMapping} :
          /\ (m # << >> => raw.headers = <<"note", "active">>)
          /\ job = NewJob(m)
    /\ worker = IdleWorker
    /\ promo = [i \in ReqIds |-> IdlePromo]
    /\ cellReq = [i \in ReqIds |-> IdleReq]
    /\ saveTask = NoSaveTask
    /\ hist = InitHist
    /\ budget = MaxEdits

\* the worker pass, then at most MaxEdits requests: cell edits and resends
PayloadNext ==
    \/ job.status = "PENDING" /\ WorkerStart
    \/ WorkerLoadFails
    \/ WorkerLoad
    \/ WorkerValidate
    \/ WorkerFinalize
    \/ \E i \in ReqIds : PromoteBegin(i)
    \/ \E i \in ReqIds : PromoteLoadFails(i)
    \/ \E i \in ReqIds : PromoteFinish(i)
    \/ InWebhookSession /\ \E row_index \in RowIndexes, column_key \in ColumnKeys, new_value \in Values :
                        \/ \E i \in ReqIds : UpdateCellPromote(i, row_index, column_key, new_value)
                        \/ UpdateCellDirect(row_index, column_key, new_value)
    \/ UpdateCellWait
    \/ InWebhookSession /\ ResendWebhook

PayloadSpec == PayloadInit /\ [][PayloadNext]_vars

(* ------------------ jobs submitted without a mapping ------------------- *)
\* files whose headers match the schema fully, by fuzzy match, in one field
\* only, or not in the required field
AutoMapHeaders ==
    { <<"age", "Actives">>, <<"Ages", "city">>, <<"age", "note">>, <<"note", "active">> }

\* imports.py 111-143: with no columnMapping, the headers of a CSV upload are
\* compared with the schema by exact name; when a required field or half of
\* the fields are missing, the dict stored as column_mapping carries a
\* warning. The headers of an Excel upload are not looked at
FileExts == {"csv", "xlsx"}
SubmittedMapping(headers, ext) ==
    IF /\ ext = "csv"
       /\ \/ RequiredFields \ Range(headers) # {}
          \/ 2 * Cardinality(FieldNames \cap Range(headers)) < Cardinality(FieldNames)
    THEN <<[f |-> "_header_warning", c |-> "CSV headers do not match the expected importer field names."]>>
    ELSE << >>

\* the state right after submit_import_job when the caller sent no mapping
AutoMapInit ==
    /\ importer = DefaultImporter
    /\ webhook = NoWebhook
    /\ \E h \in AutoMapHeaders : \E rs \in RowsOfWidth(2) : raw = [headers |-> h, rows |-> rs]
    /\ \E ext \in FileExts : job = NewJob(SubmittedMapping(raw.headers, ext))
    /\ worker = IdleWorker
    /\ promo = [i \in ReqIds |-> IdlePromo]
    /\ cellReq = [i \in ReqIds |-> IdleReq]
    /\ saveTask = NoSaveTask
    /\ hist = InitHist
    /\ budget = MaxEdits

AutoMapSpec == AutoMapInit /\ [][EditNext]_vars

(* -------------------- jobs submitted with a mapping -------------------- *)
\* imports.py 101-108: any JSON object is taken as columnMapping. The
\* mappings sent for a file with the headers note, active: field to column,
\* the same with a field the importer does not have, and column to field,
\* the direction the endpoint documents
SuppliedMappings ==
    { ExplicitMapping,
      << [f |-> "age", c |-> "note"], [f |-> "flag", c |-> "active"] >>,
      << [f |-> "note", c |-> "age"], [f |-> "active", c |-> "active"] >> }

MappingInit ==
    /\ importer = DefaultImporter
    /\ webhook = NoWebhook
    /\ \E rs \in RowsOfWidth(2) : raw = [headers |-> <<"note", "active">>, rows |-> rs]
    /\ \E m \in SuppliedMappings : job = NewJob(m)
    /\ worker = IdleWorker
    /\ promo = [i \in ReqIds |-> IdlePromo]
    /\ cellReq = [i \in ReqIds |-> IdleReq]
    /\ saveTask = NoSaveTask
    /\ hist = InitHist
    /\ budget = MaxEdits

MappingSpec == MappingInit /\ [][EditNext]_vars

(* ----------------- one cell under the two validators ------------------ *)
\* the field a cell belongs to: a boolean with or without a template, or a
\* custom_regex with its pattern in extra_rules, well-formed or not
ValidatorFields ==
    {[name |-> "f", type |-> "boolean", required |-> FALSE, extra_rules |-> << >>]}
    \cup {[name |-> "f", type |-> "boolean", required |-> FALSE, extra_rules |-> [template |-> t]] :
              t \in {"1/0", "on/off", "1_0", "yes/no"}}
    \cup {[name |-> "f", type |-> "custom_regex", required |-> FALSE, extra_rules |-> [pattern |-> p]] :
              p \in {"^1$", "["}}

ValidatorValues == BooleanAny \cup {"TRUE", "Yes", "T", "maybe", "x", " 1", " ", ""}

\* a file of one cell, under an importer of one field; nothing has validated it
ValidatorInit ==
    /\ \E f \in ValidatorFields :
          importer = [webhook_enabled |-> FALSE, include_data_in_webhook |-> FALSE,
                      truncate_data |-> FALSE, webhook_data_sample_size |-> DefaultSampleSize,
                      fields |-> <<f>>]
    /\ webhook = NoWebhook
    /\ \E v \in ValidatorValues : raw = [headers |-> <<"f">>, rows |-> <<<<v>>>>]
    /\ job = NewJob(<< >>)
    /\ worker = IdleWorker
    /\ promo = [i \in ReqIds |-> IdlePromo]
    /\ cellReq = [i \in ReqIds |-> IdleReq]
    /\ saveTask = NoSaveTask
    /\ hist = [InitHist EXCEPT !.arg = <<"none", "none">>]
    /\ budget = MaxEdits

Verdict(message) == IF message = NoError THEN "valid" ELSE "error"

\* api_worker.py 298-302: the worker hands the cell to utils.validator
WorkerValidatesCell ==
    /\ hist.arg[1] = "none"
    /\ hist' = [n |-> 1 - hist.n, op |-> "worker", code |-> 0,
                arg |-> <<Verdict(WrkValidateField(raw.rows[1][1], importer.fields[1])), hist.arg[2]>>]
    /\ UNCHANGED <<importer, webhook, raw, job, worker, promo, cellReq, saveTask, budget>>

\* imports.py 2138-2140: an edit hands the cell to ValidationService
EditValidatesCell ==
    /\ hist.arg[2] = "none"
    /\ hist' = [n |-> 1 - hist.n, op |-> "edit", code |-> 0,
                arg |-> <<hist.arg[1], Verdict(SvcValidateField(raw.rows[1][1], importer.fields[1]))>>]
    /\ UNCHANGED <<importer, webhook, raw, job, worker, promo, cellReq, saveTask, budget>>

ValidatorNext == WorkerValidatesCell \/ EditValidatesCell

ValidatorSpec == ValidatorInit /\ [][ValidatorNext]_vars

(* --------------------- at-least-once delivery -------------------------- *)
\* the queue delivers the process_api_import task of a job up to
\* MaxRedeliveries times; a delivery may come at any time the worker is free
MaxRedeliveries == 2

RedeliveryInit ==
    /\ importer = DefaultImporter
    /\ webhook = NoWebhook
    /\ \E h \in HeaderChoices : \E rs \in RowsOfWidth(2) : raw = [headers |-> h, rows |-> rs]
    /\ \E m \in {<< >>, ExplicitMapping} :
          /\ (m # << >> => raw.headers = <<"note", "active">>)
          /\ job = NewJob(m)
    /\ worker = [IdleWorker EXCEPT !.left = MaxRedeliveries]
    /\ promo = [i \in ReqIds |-> IdlePromo]
    /\ cellReq = [i \in ReqIds |-> IdleReq]
    /\ saveTask = NoSaveTask
    /\ hist = InitHist
    /\ budget = MaxEdits

RedeliveryNext ==
    \/ WorkerStart
    \/ WorkerLoadFails
    \/ WorkerLoad
    \/ WorkerValidate
    \/ WorkerFinalize
    \/ \E i \in ReqIds : PromoteBegin(i)
    \/ \E i \in ReqIds : PromoteLoadFails(i)
    \/ \E i \in ReqIds : PromoteFinish(i)
    \/ InSession /\ \E row_index \in RowIndexes, column_key \in ColumnKeys, new_value \in Values :
                        \/ \E i \in ReqIds : UpdateCellPromote(i, row_index, column_key, new_value)
                        \/ UpdateCellDirect(row_index, column_key, new_value)
    \/ UpdateCellWait
    \/ InSession /\ \E headers \in RequestHeaders, new_data \in RequestRows : SaveData(headers, new_data)
    \/ RevalidateAndSaveJob

RedeliverySpec == RedeliveryInit /\ [][RedeliveryNext]_vars

(* ------------------- the portal import (imports.py) -------------------- *)
\* the state right after upload_import_file: the file is in object storage,
\* the job row is PENDING_VALIDATION without a mapping, nothing is enqueued
PortalJob == [NewJob(<< >>) EXCEPT !.status = "PENDING_VALIDATION", !.import_source = "portal"]

PortalInit ==
    /\ importer = DefaultImporter
    /\ webhook = NoWebhook
    /\ \E h \in HeaderChoices : \E rs \in RowsOfWidth(2) : raw = [headers |-> h, rows |-> rs]
    /\ job = PortalJob
    /\ worker = [IdleWorker EXCEPT !.left = 0]
    /\ promo = [i \in ReqIds |-> IdlePromo]
    /\ cellReq = [i \in ReqIds |-> IdleReq]
    /\ saveTask = NoSaveTask
    /\ hist = InitHist
    /\ budget = MaxEdits

\* the mappings the wizard may send for the uploaded file
WizardMappings ==
    IF raw.headers = <<"note", "active">> THEN {<< >>, ExplicitMapping} ELSE {<< >>}

\* an execute_import that does not look at the status of the job
ExecuteImportUnchecked(mapping) ==
    /\ \E enqueued \in BOOLEAN :
          /\ job' = [job EXCEPT
                       !.column_mapping = mapping,
                       !.file_metadata = [present |-> TRUE, headers |-> raw.headers],
                       !.status = IF enqueued THEN "PENDING" ELSE "FAILED",
                       !.error_message = IF enqueued THEN @
                                         ELSE "Failed to enqueue job for processing."]
          /\ worker' = [worker EXCEPT !.left = IF enqueued THEN @ + 1 ELSE @]
          /\ hist' = Answer("execute_import", IF enqueued THEN 200 ELSE 500, << >>)
    /\ UNCHANGED <<importer, webhook, raw, promo, cellReq, saveTask>>

\* POST /imports/execute, lines 2598-2716: only a PENDING_VALIDATION job is
\* accepted; it gets the mapping, becomes PENDING and is enqueued for
\* process_api_import; a failing enqueue makes it FAILED
ExecuteImport(mapping) ==
    /\ IF job.status # "PENDING_VALIDATION"
       THEN /\ hist' = Answer("execute_import", 400, << >>)
            /\ UNCHANGED <<job, worker>>
       ELSE \E enqueued \in BOOLEAN :
              /\ job' = [job EXCEPT
                           !.column_mapping = mapping,
                           !.file_metadata = [present |-> TRUE, headers |-> raw.headers],
                           !.status = IF enqueued THEN "PENDING" ELSE "FAILED",
                           !.error_message = IF enqueued THEN @
                                             ELSE "Failed to enqueue job for processing."]
              /\ worker' = [worker EXCEPT !.left = IF enqueued THEN @ + 1 ELSE @]
              /\ hist' = Answer("execute_import", IF enqueued THEN 200 ELSE 500, << >>)
    /\ UNCHANGED <<importer, webhook, raw, promo, cellReq, saveTask>>

\* a portal session: the wizard's requests and the editing requests arrive
\* one at a time
PortalNext ==
    \/ job.status = "PENDING" /\ WorkerStart
    \/ WorkerLoadFails
    \/ WorkerLoad
    \/ WorkerValidate
    \/ WorkerFinalize
    \/ \E i \in ReqIds : PromoteBegin(i)
    \/ \E i \in ReqIds : PromoteLoadFails(i)
    \/ \E i \in ReqIds : PromoteFinish(i)
    \/ InSession /\ \E mapping \in WizardMappings : ExecuteImport(mapping)
    \/ InSession /\ \E row_index \in RowIndexes, column_key \in ColumnKeys, new_value \in Values :
                        \/ \E i \in ReqIds : UpdateCellPromote(i, row_index, column_key, new_value)
                        \/ UpdateCellDirect(row_index, column_key, new_value)
    \/ UpdateCellWait
    \/ InSession /\ \E headers \in RequestHeaders, new_data \in RequestRows : SaveData(headers, new_data)
    \/ RevalidateAndSaveJob

PortalSpec == PortalInit /\ [][PortalNext]_vars

(* ------------------------------ properties ----------------------------- *)
\* the step answers a request of the given kinds
Answers(ops) == hist'.n # hist.n /\ hist'.op \in ops

\* the (row, field) key of a Conflict
ConflictKey(e) == <<e.row, ErrField(e)>>
ConflictKeys(errs) == {ConflictKey(errs[i]) : i \in DOMAIN errs}

\* C1: a run of the promotion task that starts once processed_data is stored
\* returns at once: it does not go on to load the file and it leaves the job
\* (data, errors, status and every other attribute) as it was, so two runs in
\* a row make one load and one write of data
C1_PromotionIdempotent ==
    [][\A i \in ReqIds :
          (promo[i].pc = "scheduled" /\ promo'[i].pc # "scheduled" /\ job.data.present)
              => (promo'[i].pc = "none" /\ job' = job)]_vars

\* two update_cell requests each scheduled a promotion; one run stored the
\* data, and the other run found it stored and returned at once
C1_Witness ==
    /\ hist.op = "promote" /\ hist.code = 304
    /\ job.data.present
    /\ budget = 0
    /\ \A i \in ReqIds : cellReq[i].pc = "poll"

\* C2: while an update_cell request that took the PROMOTING lock is still
\* inside its promotion wait, no other update_cell request sets PROMOTING and
\* schedules a promotion of its own
C2_OneRequestPromotes ==
    [][\A i \in ReqIds :
          (promo[i].pc = "none" /\ promo'[i].pc = "scheduled")
              => \A k \in ReqIds : cellReq[k].pc = "none"]_vars

\* C3: an update_cell or save_data request answered while the status is
\* PROMOTING starts no promotion and leaves data, errors and status as they are
C3_PromotingBlocksEdits ==
    [][(job.status = "PROMOTING" /\ Answers({"update_cell", "save_data"}))
          => /\ job'.data = job.data
             /\ job'.errors = job.errors
             /\ job'.status = job.status
             /\ promo' = promo]_vars

\* C4: once the status is FAILED no step changes it
C4_FailedIsTerminal == [][job.status = "FAILED" => job'.status = "FAILED"]_vars

\* C5: after an update_cell or save_data answered 200 the status is COMPLETED
\* when error_count is 0 and UNCOMPLETED otherwise
C5_StatusFollowsErrorCount ==
    [][(Answers({"update_cell", "save_data"}) /\ hist'.code = 200)
          => job'.status = IF job'.error_count = 0 THEN "COMPLETED" ELSE "UNCOMPLETED"]_vars

\* an edit that cleared the last conflict of a job the worker left UNCOMPLETED
C5_Witness ==
    /\ hist.op = "update_cell" /\ hist.code = 200
    /\ job.status = "COMPLETED" /\ job.error_count = 0
    /\ job.file_metadata.present /\ job.row_count = 1

\* C6: the errors list never holds two Conflicts with the same (row, field)
C6_ConflictUniqueness ==
    \A i, k \in DOMAIN job.errors :
        i # k => ConflictKey(job.errors[i]) # ConflictKey(job.errors[k])

\* two conflicts on one row, the later one put there by an edit of a cell the
\* worker had already reported
C6_Witness ==
    /\ hist.op = "update_cell" /\ hist.code = 200
    /\ Len(job.errors) = 2
    /\ job.errors[2].value = hist.arg[3]
    /\ HasKey(job.errors[1], "message")

\* C7: after a save_data answered 200 the stored conflicts are, by (row, field),
\* those of validating every mapped cell of the saved table from scratch
C7_DiffEqualsFullRevalidation ==
    [][(Answers({"save_data"}) /\ hist'.code = 200)
          => ConflictKeys(job'.errors)
               = ConflictKeys(FullErrors(job'.data.cols, job'.data.rows, job'.column_mapping))]_vars

\* C8: a validate_conflicts request leaves data, errors, error_count and
\* status as they were
C8_ValidateConflictsIsPreview ==
    [][Answers({"validate_conflicts"})
          => /\ job'.data = job.data
             /\ job'.errors = job.errors
             /\ job'.error_count = job.error_count
             /\ job'.status = job.status]_vars

\* a preview that reported fewer conflicts than the job stores
C8_Witness ==
    /\ hist.op = "validate_conflicts" /\ hist.code = 200
    /\ job.errors # << >>
    /\ Len(RemainingConflicts(job, hist.arg)) < Len(job.errors)
    /\ RemainingConflicts(job, hist.arg) # << >>

\* the CSV column of an importer field, and the value a request supplies for
\* the cell of a stored conflict ("" when the table does not reach that cell)
ColumnOfField(m, field_name) == IF field_name \in MapKeys(m) THEN MapGet(m, field_name) ELSE field_name
Supplied(e, data) ==
    LET c == IndexOf(raw.headers, ColumnOfField(job.column_mapping, ErrField(e)))
    IN IF e.row \in DOMAIN data /\ c \in DOMAIN data[e.row] THEN <<data[e.row][c]>> ELSE << >>
\* the stored cell conflicts whose supplied value still fails the validator
StillFailing(data) ==
    {ConflictKey(job.errors[i]) :
        i \in {k \in DOMAIN job.errors :
                  /\ ~IsHeaderError(job.errors[k])
                  /\ HasField(ErrField(job.errors[k]))
                  /\ Supplied(job.errors[k], data) # << >>
                  /\ SvcValidateField(Supplied(job.errors[k], data)[1],
                                      FieldByName(ErrField(job.errors[k]))) # NoError}}

\* C9: a validate_conflicts answered 200 returns exactly the stored conflicts
\* whose supplied value still fails, and counts the others as resolved
C9_RechecksListedCells ==
    [][(Answers({"validate_conflicts"}) /\ hist'.code = 200)
          => /\ ConflictKeys(RemainingConflicts(job, hist'.arg)) = StillFailing(hist'.arg)
             /\ ResolvedCount(job, hist'.arg) = Len(job.errors) - Cardinality(StillFailing(hist'.arg))]_vars

\* C10: an update_cell answered 200 for (row_index, column_key, new_value)
\* leaves the conflicts of every other (row, field) as they were, in order,
\* leaves at most one conflict for the edited key, carrying the new value, and
\* changes no cell of data but the edited one
C10_UpdateCellFrame ==
    [][(Answers({"update_cell"}) /\ hist'.code = 200)
          => LET key == <<hist'.arg[1] + 1, FieldOfColumn(job.column_mapping, hist'.arg[2])>>
                 before == job.errors
                 after == job'.errors
                 others(errs) == SelectSeqIdx(errs, LAMBDA i : ConflictKey(errs[i]) # key)
                 mine(errs) == SelectSeqIdx(errs, LAMBDA i : ConflictKey(errs[i]) = key)
             IN /\ others(after) = others(before)
                /\ Len(mine(after)) <= 1
                /\ \A i \in DOMAIN mine(after) : mine(after)[i].value = hist'.arg[3]
                /\ job'.data.cols = job.data.cols
                /\ DOMAIN job'.data.rows = DOMAIN job.data.rows
                /\ \A r \in DOMAIN job.data.rows : \A c \in DOMAIN job.data.cols :
                      job'.data.rows[r][c] =
                          IF r = hist'.arg[1] + 1 /\ job.data.cols[c] = hist'.arg[2]
                          THEN hist'.arg[3] ELSE job.data.rows[r][c]]_vars

\* an edit that replaced the conflict of its cell beside the worker's conflict
\* of another field of the row
C10_Witness ==
    /\ hist.op = "update_cell" /\ hist.code = 200
    /\ Len(job.errors) = 2
    /\ ConflictKey(job.errors[2]) = <<hist.arg[1] + 1, FieldOfColumn(job.column_mapping, hist.arg[2])>>
    /\ HasKey(job.errors[1], "message")
    /\ job.data.present /\ job.status = "UNCOMPLETED"

\* the worker's row validation finds nothing: no required column is missing
\* and every cell under a schema field passes the worker's validator
NoConflictFound(hs, rows) ==
    /\ \A i \in DOMAIN Fields : Fields[i].required => Fields[i].name \in Range(hs)
    /\ \A r \in DOMAIN rows : \A i \in DOMAIN Fields :
          Fields[i].name \in Range(hs)
              => WrkValidateField(rows[r][IndexOf(hs, Fields[i].name)], Fields[i]) = NoError

\* C11: the worker step that passes header validation and validates the rows
\* of a job that is PROCESSING leaves PROCESSING for COMPLETED when the
\* validation found no conflict and for UNCOMPLETED when it found one or more
C11_WorkerStatusFollowsConflicts ==
    [][(job.status = "PROCESSING" /\ worker.pc = "validate" /\ worker'.pc = "finalize")
          => job'.status =
                IF NoConflictFound(MappedHeaders(raw.headers, worker.snap.column_mapping), raw.rows)
                THEN "COMPLETED" ELSE "UNCOMPLETED"]_vars

\* a pass over a file with a failing cell has just committed UNCOMPLETED
C11_Witness ==
    /\ worker.pc = "finalize"
    /\ job.status = "UNCOMPLETED"
    /\ worker.snap.status = "UNCOMPLETED"
    /\ ~job.data.present
    /\ job.errors # << >>
    /\ \A i \in DOMAIN job.errors : ~IsHeaderError(job.errors[i])

\* C13: no worker row validation, update_cell or save_data step turns the
\* status into FAILED, whatever conflicts the cells produce
C13_CellConflictsNeverFail ==
    [][(\/ worker.pc = "validate" /\ worker'.pc = "finalize"
        \/ Answers({"update_cell", "save_data"}))
          => (job'.status = "FAILED" => job.status = "FAILED")]_vars

\* a save_data that stored cell conflicts and left the job UNCOMPLETED
C13_Witness ==
    /\ hist.op = "save_data" /\ hist.code = 200
    /\ job.status = "UNCOMPLETED"
    /\ job.errors # << >>
    /\ \A i \in DOMAIN job.errors : ~IsHeaderError(job.errors[i]) /\ HasKey(job.errors[i], "error")

\* the Header conflicts that surface a structural failure: one per missing
\* required field, or one summary conflict when no required field is missing
HeaderSurfaced(errs, missing) ==
    /\ errs # << >>
    /\ \A i \in DOMAIN errs : IsHeaderError(errs[i])
    /\ IF missing # {}
       THEN /\ {errs[i].column : i \in DOMAIN errs} = missing
            /\ Len(errs) = Cardinality(missing)
       ELSE Len(errs) = 1 /\ errs[1].column = "Mapping"

\* C12: a worker pass that fails header validation, and a promotion that finds
\* the file headers not matching the schema, leave the job FAILED with an
\* error_message and the Header conflicts of the failure
C12_StructuralFailureSurfaced ==
    [][/\ (worker.pc = "validate" /\ worker'.pc = "idle")
            => /\ job'.status = "FAILED"
               /\ job'.error_message # ""
               /\ HeaderSurfaced(job'.errors,
                      MissingRequired(MappedHeaders(raw.headers, worker.snap.column_mapping)))
       /\ \A i \in ReqIds :
            (/\ promo[i].pc = "loading" /\ promo'[i].pc = "none"
             /\ promo[i].snap.column_mapping = << >> /\ PromoHeaderMismatch(raw.headers)
             /\ job'.error_message # "Failed to load data for editing")
            => /\ job'.status = "FAILED"
               /\ job'.error_message # ""
               /\ HeaderSurfaced(job'.errors, RequiredFields \ Range(raw.headers))]_vars

\* C15: a promotion that stores the data leaves the job COMPLETED when the
\* job was COMPLETED before the edit that triggered it, UNCOMPLETED otherwise
C15_PromotionKeepsCompleted ==
    [][\A i \in ReqIds :
          (promo[i].pc = "loading" /\ promo'[i].pc = "none" /\ ~job.data.present /\ job'.data.present)
              => job'.status = IF promo[i].before = "COMPLETED" THEN "COMPLETED" ELSE "UNCOMPLETED"]_vars

\* C14: a PENDING_VALIDATION job leaves that status only through
\* execute_import; no other request and no task changes its status
C14_LeavesOnlyByExecute ==
    [][(job.status = "PENDING_VALIDATION" /\ job'.status # "PENDING_VALIDATION")
          => Answers({"execute_import"})]_vars

\* C16: a delivery of process_api_import for a job that is already PROCESSING
\* or already processed (any status but PENDING) starts no pass and leaves
\* the job row, its errors and status included, as it was
C16_RedeliveryDoesNothing ==
    [][(worker.pc = "idle" /\ worker'.left < worker.left /\ job.status # "PENDING")
          => (job' = job /\ worker'.pc = "idle")]_vars

\* C17: with the webhook enabled, the step that ends a worker validation
\* pass (header validation failed, or the pass ran to its end) creates
\* exactly one webhook event
C17_OneWebhookPerPass ==
    [][(importer.webhook_enabled /\ worker.pc \in {"validate", "finalize"} /\ worker'.pc = "idle")
          => webhook'.events = webhook.events + 1]_vars

\* the values of the records of a payload list
CellsOf(records) == [r \in DOMAIN records |-> records[r].cells]

\* C18: a resend that creates an event builds the payload from the job as
\* it is now: the status and the error count are the current ones, and the
\* data of a promoted job are the rows as edited
C18_ResendReflectsCurrentState ==
    [][(Answers({"resend_webhook"}) /\ hist'.arg = <<"sent">>)
          => /\ webhook'.events = webhook.events + 1
             /\ webhook'.last.status = PayloadStatus(job.status)
             /\ webhook'.last.errorRows = job.error_count
             /\ webhook'.last.validRows = Max(0, job.row_count - job.error_count)
             /\ (job.data.present /\ importer.include_data_in_webhook)
                   => CellsOf(webhook'.last.data) = job.data.rows]_vars

\* a second event was sent for a promoted job whose first row was edited
\* after the worker's webhook, and it carries the edited row
C18_Witness ==
    /\ hist.op = "resend_webhook" /\ hist.arg = <<"sent">>
    /\ webhook.events = 2
    /\ job.data.present /\ job.data.rows # << >> /\ raw.rows # << >>
    /\ job.data.rows[1] # raw.rows[1]
    /\ webhook.last.data # << >>
    /\ webhook.last.data[1].cells = job.data.rows[1]

\* C19: in every payload sent, by the worker or by a resend, no row whose
\* number appears in a non-structural conflict of the job is in data, and
\* data is empty when a conflict carries the Header marker
C19_ErrorRowsNotInData ==
    [][webhook'.events # webhook.events
          => /\ \A k \in DOMAIN webhook'.last.data :
                   webhook'.last.data[k].row \notin ErrorRows(job.errors)
             /\ HasStructural(job.errors) => webhook'.last.data = << >>]_vars

\* C20: the data and errors of a payload are non-empty only if the importer
\* includes data in its webhook
C20_DataOnlyIfIncluded ==
    (webhook.last # NoPayload /\ ~importer.include_data_in_webhook)
        => (webhook.last.data = << >> /\ webhook.last.errors = << >>)

\* an importer that does not include data has sent the webhook of a pass
\* that found a row with a conflict, and the payload counts it and is empty
C20_Witness ==
    /\ ~importer.include_data_in_webhook
    /\ webhook.events = 1 /\ webhook.last # NoPayload
    /\ raw.rows # << >> /\ job.errors # << >>
    /\ webhook.last.errorRows = 1
    /\ webhook.last.data = << >> /\ webhook.last.errors = << >>

\* the first n records of a list, in their order
FirstRecords(records, n) ==
    [k \in 1..(IF Len(records) < n THEN Len(records) ELSE n) |-> records[k]]

\* C21: with truncate_data the data and the errors of a payload are the
\* first sample_size records the sender had, in their order; without it they
\* are all of them
C21_TruncationFirstN ==
    webhook.last # NoPayload
        => IF importer.truncate_data
           THEN /\ webhook.last.data = FirstRecords(webhook.selected.data, importer.webhook_data_sample_size)
                /\ webhook.last.errors = FirstRecords(webhook.selected.errors, importer.webhook_data_sample_size)
                /\ Len(webhook.last.data) <= importer.webhook_data_sample_size
                /\ Len(webhook.last.errors) <= importer.webhook_data_sample_size
           ELSE /\ webhook.last.data = webhook.selected.data
                /\ webhook.last.errors = webhook.selected.errors

\* a truncating importer had more valid records than its sample size and
\* sent the first of them only
C21_Witness ==
    /\ importer.truncate_data
    /\ webhook.last # NoPayload
    /\ Len(webhook.selected.data) > importer.webhook_data_sample_size
    /\ Len(webhook.last.data) = importer.webhook_data_sample_size
    /\ webhook.last.data[1] = webhook.selected.data[1]
    /\ webhook.selected.data[Len(webhook.selected.data)].cells # webhook.selected.data[1].cells

\* C22: a job created by submit_import_job has source API, at creation and
\* after every later operation
C22_ApiJobHasSourceApi == job.import_source = "api"

Guarded(j) == <<j.data, j.errors, j.status>>

\* C25: while a worker pass holds PROCESSING only the worker writes the
\* data, errors or status of the job, and while a promotion holds PROMOTING
\* the worker writes none of them
C25_StatusSerializesWriters ==
    [][/\ (worker.pc # "idle" /\ job.status = "PROCESSING" /\ Guarded(job') # Guarded(job))
            => worker' # worker
       /\ ((\E i \in ReqIds : promo[i].pc \in {"scheduled", "loading"}) /\ job.status = "PROMOTING"
             /\ Guarded(job') # Guarded(job))
            => worker' = worker]_vars

\* C26: the fallback save answers with the job in SAVING, and the background
\* revalidation leaves SAVING: COMPLETED when it stored no conflict,
\* UNCOMPLETED when it stored one or more, FAILED only with no column
\* structure to validate against
C26_SavingEndsByConflicts ==
    [][/\ (Answers({"save_data"}) /\ hist'.code = 202) => job'.status = "SAVING"
       /\ (saveTask.pending /\ ~saveTask'.pending)
            => job'.status =
                 IF RevalHeaders(job, saveTask.headers, saveTask.rows) = << >> THEN "FAILED"
                 ELSE IF job'.errors = << >> THEN "COMPLETED" ELSE "UNCOMPLETED"]_vars

\* C27: a promotion that ends without processed_data (its load failed) has
\* taken the job from PROMOTING to FAILED with an error message, and the
\* task has ended
C27_FailedPromotionRecovered ==
    [][\A i \in ReqIds :
          (promo[i].pc = "loading" /\ promo'[i].pc = "none" /\ ~job'.data.present)
            => /\ job.status = "PROMOTING"
               /\ job'.status = "FAILED"
               /\ job'.error_message # ""
               /\ promo'[i] = IdlePromo]_vars

\* the load of a promotion has failed while its request is still waiting
C27_Witness ==
    /\ job.status = "FAILED" /\ ~job.data.present
    /\ job.error_message = "Failed to load data for editing"
    /\ job.errors = << >>
    /\ \E i \in ReqIds : cellReq[i].pc = "poll" /\ promo[i].pc = "none"

\* C28: a worker pass over a job that never had a mapping ends in FAILED with
\* Header conflicts when the auto-mapping leaves a required field unmatched
\* or matches fewer than half of the schema fields, and goes on to its
\* results only otherwise
C28_HalfOfFieldsOrFail ==
    [][(worker.pc = "validate" /\ worker'.pc # "validate")
          => LET matched == MapKeys(AutoMapping(raw.headers))
                 tooFew == \/ RequiredFields \ matched # {}
                           \/ 2 * Cardinality(matched) < Cardinality(FieldNames)
             IN tooFew => /\ job'.status = "FAILED"
                          /\ \E k \in DOMAIN job'.errors : job'.errors[k].row = HeaderRow
                          /\ worker'.pc = "idle"]_vars

\* C29: column_mapping changes only from absent, in the worker's load step,
\* to the auto-resolved mapping; a stored mapping, explicit or auto-resolved,
\* is never changed afterwards, and a worker pass validates with the mapping
\* as stored
C29_MappingWrittenOnlyWhenAbsent ==
    [][/\ job'.column_mapping # job.column_mapping
          => /\ job.column_mapping = << >>
             /\ worker.pc = "load" /\ worker'.pc = "validate"
             /\ job'.column_mapping = AutoMapping(raw.headers)
       /\ worker'.pc = "validate" => worker'.snap.column_mapping = job'.column_mapping]_vars

\* a redelivered pass validates a promoted job with the mapping the first
\* pass resolved
C29_Witness ==
    /\ worker.left = 0 /\ worker.pc = "validate" /\ ~worker.auto
    /\ job.column_mapping = AutoMapping(raw.headers)
    /\ job.column_mapping # << >>
    /\ job.data.present

\* C30: the validated_cells a save reports is the number of cells of the
\* saved table that lie in a mapped column and either belong to a new row or
\* differ from the stored value
C30_ValidatedCellsCountsChanges ==
    [][(Answers({"save_data"}) /\ hist'.code = 200)
          => hist'.arg[1] =
                Cardinality({rc \in (DOMAIN job'.data.rows) \X (DOMAIN job'.data.cols) :
                    /\ \E i \in DOMAIN job.column_mapping :
                          job.column_mapping[i].c = job'.data.cols[rc[2]]
                    /\ \/ rc[1] > Len(job.data.rows)
                       \/ job'.data.rows[rc[1]][rc[2]]
                            # (IF job'.data.cols[rc[2]] \in Range(job.data.cols)
                               THEN job.data.rows[rc[1]][IndexOf(job.data.cols, job'.data.cols[rc[2]])]
                               ELSE "")})]_vars

\* a save of a promoted job that changed one mapped cell and reported one
C30_Witness ==
    /\ hist.op = "save_data" /\ hist.code = 200 /\ hist.arg = <<1>>
    /\ job.data.present /\ Len(job.data.rows) = 1
    /\ job.data.rows # raw.rows

\* C31: on a boolean field the worker's validator and the edits' validator
\* give the same verdict on every cell value, and a value that is not blank
\* is valid exactly when, lower-cased, it is one of the twelve words (no
\* template), 1 or 0 (template 1/0), on or off (template on/off)
C31_BooleanValidatorsAgree ==
    LET f == importer.fields[1]
        v == raw.rows[1][1]
        allowed == IF f.extra_rules = << >>
                   THEN {"true", "false", "yes", "no", "1", "0", "on", "off", "t", "f", "y", "n"}
                   ELSE IF f.extra_rules.template \in {"1/0", "1_0"} THEN {"1", "0"}
                   ELSE IF f.extra_rules.template = "on/off" THEN {"on", "off"}
                   ELSE {"yes", "no", "y", "n"}
    IN (f.type = "boolean" /\ hist.arg[1] # "none" /\ hist.arg[2] # "none")
          => /\ hist.arg[1] = hist.arg[2]
             /\ Strip(v) # "" => (hist.arg[1] = "valid" <=> Lower(Strip(v)) \in allowed)

\* C32: on a custom_regex field whose extra_rules.pattern compiles, a value
\* that is not empty and does not match is an error for the worker and for
\* the edits; with a pattern that does not compile no value is an error
C32_PatternMismatchIsError ==
    LET f == importer.fields[1]
        v == raw.rows[1][1]
    IN (f.type = "custom_regex" /\ hist.arg[1] # "none" /\ hist.arg[2] # "none")
          => IF f.extra_rules.pattern = "["
             THEN hist.arg = <<"valid", "valid">>
             ELSE (Strip(v) # "" /\ Strip(v) # "1") => hist.arg = <<"error", "error">>

\* C33: a job the worker has marked PROCESSING eventually carries a status
\* of COMPLETED, UNCOMPLETED or FAILED, whatever the pass runs into
C33_WorkerLeavesProcessing ==
    (job.status = "PROCESSING") ~> (job.status \in {"COMPLETED", "UNCOMPLETED", "FAILED"})

\* a pass that failed to load its file is over and the job is FAILED
C33_Witness ==
    /\ worker.pc = "idle" /\ worker.left = 0
    /\ job.status = "FAILED" /\ job.error_message = "Failed to parse data file"

\* C34: a job in PROMOTING eventually carries UNCOMPLETED, COMPLETED or
\* FAILED when the requests stop, the started tasks running to their end
C34_PromotingIsLeft ==
    (job.status = "PROMOTING") ~> (job.status \in {"UNCOMPLETED", "COMPLETED", "FAILED"})

\* C35: once data is materialized no promotion task replaces it: a step that
\* changes materialized data is a step of update_cell or of save_data (its
\* background revalidation included), never the commit of a promotion
C35_PromotionNeverReplacesData ==
    [][job.data.present /\ job'.data # job.data => promo' = promo]_vars

\* C36: an update_cell request answered 425 or 400 is not partially applied:
\* the step that answers it, and every step of a request still waiting for
\* its promotion, leaves data, errors and error_count as they were
C36_RejectedEditNotApplied ==
    [][(\/ Answers({"update_cell"}) /\ hist'.code \in {0, 400, 425}
        \/ \E i \in ReqIds : cellReq[i].pc = "poll" /\ cellReq'[i].pc = "poll"
                               /\ cellReq'[i] # cellReq[i])
       => /\ job'.data = job.data
          /\ job'.errors = job.errors
          /\ job'.error_count = job.error_count]_vars

\* a promoted job with conflicts has answered an edit of a cell it does not
\* have with 400
C36_Witness ==
    /\ hist.op = "update_cell" /\ hist.code = 400
    /\ job.data.present
    /\ job.errors # << >>

\* C37: a successful promotion writes only data and status: the commit of a
\* promotion task whose file passed the header check leaves errors,
\* error_count, row_count and column_mapping as they were
C37_PromotionFrame ==
    [][\A i \in ReqIds :
          (/\ promo[i].pc = "loading" /\ promo'[i].pc = "none"
           /\ ~(promo[i].snap.column_mapping = << >> /\ PromoHeaderMismatch(raw.headers))
           /\ job'.data = ToRecords(PromoHeaders(raw.headers, promo[i].snap.column_mapping), raw.rows))
          => /\ job'.errors = job.errors
             /\ job'.error_count = job.error_count
             /\ job'.row_count = job.row_count
             /\ job'.column_mapping = job.column_mapping]_vars

\* a job the worker left with conflicts has been promoted and not edited since
C37_Witness ==
    /\ job.data.present /\ job.status = "UNCOMPLETED"
    /\ job.errors # << >> /\ job.row_count > 0
    /\ hist.op = "update_cell" /\ hist.code = 0
    /\ \A i \in ReqIds : promo[i].pc = "none"

\* C38: in every reachable state a COMPLETED job has an empty conflict list
\* and error_count 0
C38_CompletedHasNoErrors ==
    job.status = "COMPLETED" => job.errors = << >> /\ job.error_count = 0

\* C39: in every webhook payload validRows + errorRows = totalRows, with
\* validRows not negative
C39_PayloadCountsAddUp ==
    webhook.last # NoPayload =>
        /\ webhook.last.validRows + webhook.last.errorRows = webhook.last.totalRows
        /\ webhook.last.validRows >= 0

====
